---- MODULE Spec2Model ----
(***************************************************************************)
(* A model of the ibatis-to-mybatis converter (ItoMConverter).             *)
(*                                                                         *)
(* Strings are sequences of one-character strings, so that trimming,       *)
(* regex matching, substitution and concatenation are computed, not        *)
(* assumed.  An attribute object is a function from keys to strings; a     *)
(* missing key is JavaScript's undefined.  A string that is undefined      *)
(* where the code only tests truthiness is the empty sequence.             *)
(***************************************************************************)
EXTENDS Integers, Sequences, FiniteSets, TLC

VARIABLES
    \* one call of filterElementText
    ftIn,            \* the argument of the call
    ftOut,           \* what the call returned
    ftOk,            \* FALSE when the call threw
    ftPc,            \* "ready" before the call, "returned" after
    regexLastIndex,  \* ItoMConverter.REGEX_IBATIS_ELEMENT.lastIndex (static)
    \* calls of filterAttrsAndTranslate on one attribute object
    faOrig,          \* the object as the parser delivered it
    faOnce,          \* the object after the first call
    faObj,           \* the object now (the calls change it in place)
    faApplied,       \* how many calls have been made
    \* one call of parseNearlyRootElements on a statement
    cvWrap,          \* what encloses the element looked at: "none", "where",
                     \* "set" or "trim" (a <dynamic> with that prepend)
    cvTag,           \* the element looked at, as parsed
    cvOut,           \* what the call gave: ok = FALSE when it threw, out[1]
                     \* = the statement's XmlElement
    cvPc,            \* "ready" before the call, "done" after
    \* one call of parse on a document
    pDoc,            \* r.sqlMap.$$: the root children as parsed
    pIdx,            \* the root child the loop is at
    elements,        \* the elements list of parse
    pXml,            \* what buildXmlOnce put below this.xml
    pStatus,         \* "parsing", "done" (cb was called) or "thrown"
    \* documents converted one after the other
    pQueue,          \* the documents still to be converted in this process
    pRun,            \* "alone": the last document converted by itself,
                     \* "batch": the documents converted in one process
    pSolo,           \* status and output of the conversion by itself
    \* the command line program
    dItems,          \* items: what readdir listed, each with the file's content
    dCurrent,        \* ArrayIterator.current
    dPc,             \* the callback that is pending: "readdir", "readFile",
                     \* "converting" (the parse loop of the file read),
                     \* "exit" (none) or "crashed" (an uncaught throw)
    dHanded,         \* the entries handed to parse, in order
    dWritten,        \* the files written: entry and content
    dFailed,         \* the entries whose write was logged as failed
    \* calls on one Optional
    oSrc,            \* the value given to of, or EmptyCall for empty()
    oThis,           \* the Optional the next method is called on
    oRet,            \* the last call: op, on (the Optional it was called
                     \* on), pred (the predicate given to filter), present
                     \* (what isPresent returned), ret (what filter returned)
    oCalls,          \* how many methods have been called
    \* one converter
    parameterMap,    \* this.parameterMap: id -> ParameterMap
    typeAlias        \* this.typeAlias: alias -> type

textVars == <<ftIn, ftOut, ftOk, ftPc, regexLastIndex>>
attrVars == <<faOrig, faOnce, faObj, faApplied>>
convVars == <<cvWrap, cvTag, cvOut, cvPc>>
parseVars == <<pDoc, pIdx, elements, pXml, pStatus, parameterMap>>
batchVars == <<pQueue, pRun, pSolo>>
driverVars == <<dItems, dCurrent, dPc, dHanded, dWritten, dFailed>>
optVars == <<oSrc, oThis, oRet, oCalls>>
vars == <<textVars, attrVars, convVars, parseVars, batchVars, driverVars,
          optVars, typeAlias>>

----------------------------------------------------------------------------
(* Bounds of the model *)

\* longest text over SigilAlphabet handed to filterElementText
MaxTextLen == 8
\* longest name, sub-property or jdbc type of a generated bind token
MaxNameLen == 2
\* how often filterAttrsAndTranslate is applied to one attribute object
MaxApplications == 2
\* most children of the element looked at in a statement
MaxChildren == 2
\* most root children of a document
MaxRootChildren == 3
\* root children of each of two documents converted one after the other
MaxBatchDocLen == 2
\* entries of the directory listing
MaxFiles == 3
\* parameter declarations of one parameter map
MaxParameters == 2
\* children of one result map
MaxResultChildren == 2
\* methods called one after the other on an Optional
MaxOptionalCalls == 2

----------------------------------------------------------------------------
(* Characters *)

Lower == {"a","b","c","d","e","f","g","h","i","j","k","l","m",
          "n","o","p","q","r","s","t","u","v","w","x","y","z"}
Upper == {"A","B","C","D","E","F","G","H","I","J","K","L","M",
          "N","O","P","Q","R","S","T","U","V","W","X","Y","Z"}
Digit == {"0","1","2","3","4","5","6","7","8","9"}
Alnum == Lower \cup Upper \cup Digit

\* what String.prototype.trim removes
WhiteSpace == {" ", "\t", "\n", "\r"}

LINE_SEPARATOR == <<"\n">>

\* ([$#])
SigilClass == {"$", "#"}
\* ([a-zA-Z_0-9\[\]]+)
NameClass == Alnum \cup {"_", "[", "]"}
\* (\.[a-zA-Z0-9]+)?
PropClass == Alnum
\* (?::([a-zA-Z_0-9]+))?
TypeClass == Alnum \cup {"_"}

----------------------------------------------------------------------------
(* String primitives of the JavaScript runtime *)

RECURSIVE TrimLeft(_)
TrimLeft(s) ==
    IF s # <<>> /\ Head(s) \in WhiteSpace THEN TrimLeft(Tail(s)) ELSE s

RECURSIVE TrimRight(_)
TrimRight(s) ==
    IF s # <<>> /\ s[Len(s)] \in WhiteSpace
    THEN TrimRight(SubSeq(s, 1, Len(s) - 1))
    ELSE s

\* String.prototype.trim
Trim(s) == TrimRight(TrimLeft(s))

\* s.substring(i - 1): the suffix of s from (1-based) position i
From(s, i) == SubSeq(s, i, Len(s))

\* whether pat occurs in s at (1-based) position i
OccursAt(s, pat, i) ==
    /\ i >= 1
    /\ i + Len(pat) - 1 <= Len(s)
    /\ SubSeq(s, i, i + Len(pat) - 1) = pat

\* the least element of a non-empty set of numbers
Least(S) == CHOOSE i \in S : \A j \in S : i <= j

\* s.indexOf(pat) + 1: the first position where pat occurs, 0 when none
FirstOf(hits) == IF hits = {} THEN 0 ELSE Least(hits)
IndexOf(s, pat) == FirstOf({i \in 1..(Len(s) + 1) : OccursAt(s, pat, i)})

\* s with the Len(pat) characters at position i replaced by rep (i = 0: s)
ReplaceAt(s, i, pat, rep) ==
    IF i = 0 THEN s
    ELSE SubSeq(s, 1, i - 1) \o rep \o From(s, i + Len(pat))

\* s.replace(pat, rep) with a string pattern: the first occurrence only.
\* (rep never holds a "$" here, so no replacement pattern is expanded.)
ReplaceFirst(s, pat, rep) == ReplaceAt(s, IndexOf(s, pat), pat, rep)

\* s.replace(/\r\n/g, LINE_SEPARATOR)
RECURSIVE NormalizeCrLf(_)
NormalizeCrLf(s) ==
    IF s = <<>> THEN <<>>
    ELSE IF OccursAt(s, <<"\r", "\n">>, 1)
         THEN LINE_SEPARATOR \o NormalizeCrLf(From(s, 3))
         ELSE <<Head(s)>> \o NormalizeCrLf(Tail(s))

\* the length of the longest run of characters of class at position i
RunLen(s, i, class) ==
    CHOOSE n \in 0..(Len(s) - i + 1) :
        /\ \A k \in 0..(n - 1) : s[i + k] \in class
        /\ (i + n > Len(s) \/ s[i + n] \notin class)

----------------------------------------------------------------------------
(* ItoMConverter.REGEX_IBATIS_ELEMENT:                                     *)
(*   /([$#])([a-zA-Z_0-9\[\]]+)(\.[a-zA-Z0-9]+)?(?::([a-zA-Z_0-9]+))?\1/g  *)

\* lengths the optional group (\.[a-zA-Z0-9]+)? may take after a name that
\* ends at position q - 1 (0: the group does not take part)
PropLens(s, q) ==
    {0} \cup (IF q <= Len(s) /\ s[q] = "."
              THEN 1..RunLen(s, q + 1, PropClass) ELSE {})

\* lengths the optional group (?::([a-zA-Z_0-9]+))? may take at position q
TypeLens(s, q) ==
    {0} \cup (IF q <= Len(s) /\ s[q] = ":"
              THEN 1..RunLen(s, q + 1, TypeClass) ELSE {})

\* where the part after the name starts, given the name length n
AfterName(i, n) == i + 1 + n
\* where the part after the sub-property starts
AfterProp(i, n, p) == AfterName(i, n) + (IF p > 0 THEN 1 + p ELSE 0)
\* where the closing sigil must stand
AfterType(i, n, p, t) == AfterProp(i, n, p) + (IF t > 0 THEN 1 + t ELSE 0)

\* every way the pattern matches at position i: the lengths of the name, of
\* the sub-property and of the jdbc type
MatchCands(s, i) ==
    IF i > Len(s) \/ s[i] \notin SigilClass THEN {}
    ELSE LET all == UNION { UNION { { [n |-> n, p |-> p, t |-> t] :
                                      t \in TypeLens(s, AfterProp(i, n, p)) } :
                                    p \in PropLens(s, AfterName(i, n)) } :
                            n \in 1..RunLen(s, i + 1, NameClass) }
         IN { c \in all :
                LET e == AfterType(i, c.n, c.p, c.t)
                IN e <= Len(s) /\ s[e] = s[i] }     \* the back reference \1

\* the order in which a backtracking matcher tries the candidates: greedy
\* quantifiers first, an optional group taken before it is skipped
Earlier(c, d) ==
    \/ c.n > d.n
    \/ c.n = d.n /\ c.p > d.p
    \/ c.n = d.n /\ c.p = d.p /\ c.t >= d.t

\* a failed match
NoMatch(i) ==
    [ok |-> FALSE, start |-> i, end |-> i,
     name |-> <<>>, prop |-> <<>>, type |-> <<>>]

\* the match at position i that takes the lengths c: [ok, start, end,
\* name (match[2]), prop (match[3], with its dot), type (match[4])]
MatchRecord(s, i, c) ==
    [ok |-> TRUE, start |-> i,
     end |-> AfterType(i, c.n, c.p, c.t),
     name |-> SubSeq(s, i + 1, i + c.n),
     prop |-> IF c.p = 0 THEN <<>>
              ELSE SubSeq(s, AfterName(i, c.n), AfterName(i, c.n) + c.p),
     type |-> IF c.t = 0 THEN <<>>
              ELSE SubSeq(s, AfterProp(i, c.n, c.p) + 1,
                          AfterProp(i, c.n, c.p) + c.t)]

\* the candidate the matcher finds first
FirstCand(cands) == CHOOSE x \in cands : \A y \in cands : Earlier(x, y)

MatchOf(s, i, cands) ==
    IF cands = {} THEN NoMatch(i) ELSE MatchRecord(s, i, FirstCand(cands))

\* the match of the pattern at position i
MatchAt(s, i) == MatchOf(s, i, MatchCands(s, i))

ExecFound(m) == [ok |-> TRUE, m |-> m, lastIndex |-> m.end]

ExecResult(s, hits) ==
    IF hits = {}
    THEN [ok |-> FALSE, m |-> NoMatch(0), lastIndex |-> 0]
    ELSE ExecFound(MatchAt(s, Least(hits)))

\* regex.exec(s) of the global regex whose lastIndex is li: the leftmost
\* match at or after (0-based) index li; lastIndex becomes the match's end,
\* or 0 when there is none
RegexExec(s, li) ==
    ExecResult(s, {i \in (li + 1)..Len(s) : MatchCands(s, i) # {}})

\* the matches of s from position i on, left to right, not overlapping
RECURSIVE MatchesFrom(_, _)
RECURSIVE MatchesNext(_, _, _)
MatchesNext(s, i, m) ==
    IF m.ok THEN <<m>> \o MatchesFrom(s, m.end + 1)
    ELSE MatchesFrom(s, i + 1)

MatchesFrom(s, i) ==
    IF i > Len(s) THEN <<>> ELSE MatchesNext(s, i, MatchAt(s, i))

MatchedStrings(s, ms) ==
    [k \in 1..Len(ms) |-> SubSeq(s, ms[k].start, ms[k].end)]

\* s.match(regex) of the global regex: the matched strings (the empty
\* sequence stands for null); lastIndex is 0 afterwards, whatever it was
StringMatch(s) ==
    [matches |-> MatchedStrings(s, MatchesFrom(s, 1)), lastIndex |-> 0]

----------------------------------------------------------------------------
(* ItoMConverter.filterElementText *)

\* MybatisToken with the sub-property forgotten
MybatisTokenNoProp(m) ==
    <<"#", "{">> \o m.name
        \o (IF m.type # <<>>
            THEN <<",","j","d","b","c","T","y","p","e","=">> \o m.type
            ELSE <<>>)
        \o <<"}">>

\* the MyBatis token built from one exec result
MybatisToken(m) ==
    <<"#", "{">> \o m.name
        \o (IF m.prop # <<>> THEN m.prop ELSE <<>>)
        \o (IF m.type # <<>>
            THEN <<",","j","d","b","c","T","y","p","e","=">> \o m.type
            ELSE <<>>)
        \o <<"}">>

\* regex.lastIndex = 0 at the end of each forEach round
ResetLastIndex(li) == 0

\* matches.forEach(...): one exec and one replace per matched string
RECURSIVE SubstituteEach(_, _, _)
RECURSIVE SubstituteOne(_, _, _)
SubstituteOne(matches, newText, x) ==
    IF ~x.ok
    THEN [ok |-> FALSE, text |-> newText, lastIndex |-> x.lastIndex]
    ELSE SubstituteEach(Tail(matches),
                        ReplaceFirst(newText, Head(matches),
                                     MybatisToken(x.m)),
                        ResetLastIndex(x.lastIndex))

SubstituteEach(matches, newText, li) ==
    IF matches = <<>>
    THEN [ok |-> TRUE, text |-> newText, lastIndex |-> li]
    ELSE SubstituteOne(matches, newText, RegexExec(Head(matches), li))

FilterMatched(trimedText, sm) ==
    IF sm.matches # <<>>
    THEN SubstituteEach(sm.matches, trimedText, sm.lastIndex)
    ELSE [ok |-> TRUE, text |-> trimedText, lastIndex |-> sm.lastIndex]

FilterTrimmed(trimedText) == FilterMatched(trimedText, StringMatch(trimedText))

\* filterElementText(text), entered with regex.lastIndex = li:
\* [ok (FALSE: it threw), text (the returned string), lastIndex]
FilterElementTextCall(text, li) == FilterTrimmed(NormalizeCrLf(Trim(text)))

----------------------------------------------------------------------------
(* The texts handed to filterElementText *)

SeqsUpTo(A, n) == UNION {[1..k -> A] : k \in 0..n}

SigilAlphabet == {"#", "$", "a"}
NameAlphabet == {"a", "_", "1"}
SubAlphabet == {"a", "1"}

Names == SeqsUpTo(NameAlphabet, MaxNameLen) \ {<<>>}
Subs == SeqsUpTo(SubAlphabet, MaxNameLen) \ {<<>>}

\* <sigil><name>[.<sub>][:<type>]<sigil>; the empty sub or type is left out
BindToken(sg, N, sub, T) ==
    <<sg>> \o N \o (IF sub = <<>> THEN <<>> ELSE <<".">> \o sub)
           \o (IF T = <<>> THEN <<>> ELSE <<":">> \o T) \o <<sg>>

TokenTexts ==
    {BindToken(sg, N, sub, T) :
        sg \in SigilClass, N \in Names,
        sub \in Subs \cup {<<>>}, T \in Names \cup {<<>>}}

\* tokens inside SQL text with white space and line ends around them
PaddedTexts ==
    {pre \o <<"x", "=">> \o a \o mid \o b \o post :
        pre \in {<<>>, <<" ", "\t">>},
        a \in {<<"#", "a", "#">>, <<"$", "a", ":", "T", "$">>},
        mid \in {<<"\r", "\n">>, <<" ">>, <<"\n">>},
        b \in {<<>>, <<"#", "a", "#">>, <<"#", "b", ".", "c", "#">>},
        post \in {<<>>, <<"\r", "\n", " ">>}}

Texts == SeqsUpTo(SigilAlphabet, MaxTextLen) \cup TokenTexts \cup PaddedTexts

----------------------------------------------------------------------------
(* Attribute objects *)

\* {}
NoAttrs == <<>>

\* the value undefined where a string is expected; no string equals it
Undefined == <<"undefined">>

Has(o, k) == k \in DOMAIN o
\* o[k]
Get(o, k) == IF Has(o, k) THEN o[k] ELSE Undefined
\* o[k] is neither undefined nor ''
Truthy(o, k) == Has(o, k) /\ o[k] # <<>> /\ o[k] # Undefined
\* o[k] = v
Put(o, k, v) == [x \in DOMAIN o \cup {k} |-> IF x = k THEN v ELSE o[x]]
\* delete o[k]
Delete(o, k) == [x \in DOMAIN o \ {k} |-> o[x]]

MAY_ALIAS_ATTR == <<"class", "parameterClass", "resultClass">>

NEED_CONVERTER ==
    [k \in {"class", "parameterClass", "resultClass"} |->
        CASE k = "class" -> "type"
          [] k = "parameterClass" -> "parameterType"
          [] k = "resultClass" -> "resultType"]

\* NEED_CONVERTER whose first entry leads back into MAY_ALIAS_ATTR
NEED_CONVERTER_Cyclic ==
    [k \in {"class", "parameterClass", "resultClass"} |->
        CASE k = "class" -> "resultClass"
          [] k = "parameterClass" -> "parameterType"
          [] k = "resultClass" -> "resultType"]

\* obj[key] = trimValue when trimming changed it, then obj[key] = real
\* when the registry knows trimValue
ResolveTrimmed(obj, key, trimValue) ==
    IF Truthy(typeAlias, trimValue) THEN Put(obj, key, typeAlias[trimValue])
    ELSE Put(obj, key, trimValue)

\* the body of the first loop of filterAttrsAndTranslate for one key
ResolveAlias(obj, key) ==
    IF Truthy(obj, key) THEN ResolveTrimmed(obj, key, Trim(obj[key]))
    ELSE obj

\* the second loop of filterAttrsAndTranslate: every key NEED_CONVERTER
\* names is deleted and its value stored under the new key.  (No two keys
\* share a new key and no new key is renamed in turn, so the order of the
\* for-in loop does not show.)
RenameKeys(obj, conv) ==
    LET src == DOMAIN obj \cap DOMAIN conv
        tgt == {conv[k] : k \in src}
    IN [x \in (DOMAIN obj \ src) \cup tgt |->
          IF x \in tgt THEN obj[CHOOSE k \in src : conv[k] = x] ELSE obj[x]]

\* filterAttrsAndTranslate with the renaming table NEED_CONVERTER_Cyclic
FilterAttrsAndTranslateCyclic(obj) ==
    RenameKeys(ResolveAlias(ResolveAlias(ResolveAlias(obj,
        MAY_ALIAS_ATTR[1]), MAY_ALIAS_ATTR[2]), MAY_ALIAS_ATTR[3]),
        NEED_CONVERTER_Cyclic)

\* this.filterAttrsAndTranslate(obj): the object it leaves behind
FilterAttrsAndTranslate(obj) ==
    RenameKeys(ResolveAlias(ResolveAlias(ResolveAlias(obj,
        MAY_ALIAS_ATTR[1]), MAY_ALIAS_ATTR[2]), MAY_ALIAS_ATTR[3]),
        NEED_CONVERTER)

----------------------------------------------------------------------------
(* Elements *)

TEXT_NODE_NAME == "__text__"

\* what xml2js keeps under '_' for an element: its own character data
RECURSIVE CharData(_)
CharData(children) ==
    IF children = <<>> THEN <<>>
    ELSE (IF Head(children).name = TEXT_NODE_NAME THEN Head(children).text
          ELSE <<>>) \o CharData(Tail(children))

\* a parsed text run: { '#name': '__text__', _: t }
SrcText(t) ==
    [name |-> TEXT_NODE_NAME, attr |-> NoAttrs, children |-> <<>>, text |-> t]

\* a parsed element: { '#name': name, $: attr, $$: children, _: ... }
SrcElem(name, attr, children) ==
    [name |-> name, attr |-> attr, children |-> children,
     text |-> CharData(children)]

\* an XmlElement; text = <<>> is an undefined text
XmlElement(name, attr, children, text) ==
    [name |-> name, attr |-> attr, children |-> children, text |-> text]

\* createXmlElement that accepts a text node without text
CreateXmlElementAnyText(name, attr, children, text) ==
    [ok |-> TRUE, el |-> XmlElement(name, attr, children, text)]

\* createXmlElement(name, attr, children, text): [ok (FALSE: it threw), el]
CreateXmlElement(name, attr, children, text) ==
    [ok |-> ~(name = TEXT_NODE_NAME /\ text = <<>>),
     el |-> XmlElement(name, attr, children, text)]

\* what a call of convertCommonSqlAndTags did: ok = FALSE when it threw,
\* out = the elements it pushed onto parent.children, in order
Pushed(out) == [ok |-> TRUE, out |-> out]
Thrown == [ok |-> FALSE, out |-> <<>>]

\* a throwing step throws for the whole; otherwise pre, then what r pushed
After(pre, r) == IF r.ok THEN Pushed(pre \o r.out) ELSE Thrown

----------------------------------------------------------------------------
(* The literals of the rewrite rules *)

S_NE_NULL == <<" ", "!", "=", " ", "n", "u", "l", "l">>
S_EQ_NULL == <<" ", "=", "=", " ", "n", "u", "l", "l">>
S_AND == <<" ", "a", "n", "d", " ">>
S_OR == <<" ", "o", "r", " ">>
S_NE_EMPTY == <<" ", "!", "=", " ", "'", "'">>
S_EQ_EMPTY == <<" ", "=", "=", " ", "'", "'">>
S_EQ == <<" ", "=", "=", " ">>
S_TRUE == <<"t", "r", "u", "e">>
S_FALSE == <<"f", "a", "l", "s", "e">>
S_UNDEFINED == <<"u", "n", "d", "e", "f", "i", "n", "e", "d">>
S_LIST_ITEM == <<"l", "i", "s", "t", "I", "t", "e", "m">>
S_WHERE == <<"w", "h", "e", "r", "e">>
S_SET == <<"s", "e", "t">>
S_POST == <<"p", "o", "s", "t">>
S_AFTER == <<"A", "F", "T", "E", "R">>
S_BEFORE == <<"B", "E", "F", "O", "R", "E">>
S_JAVA_LANG == <<"j", "a", "v", "a", ".", "l", "a", "n", "g", ".">>

\* `${v}`, v as a property name, '' + v: undefined prints as "undefined"
Str(v) == IF v = Undefined THEN S_UNDEFINED ELSE v

\* `${o[k]}` in a template string
Shown(o, k) == Str(Get(o, k))

GuardNames == {"isNotEmpty", "isNotNull", "isEmpty", "isNull"}

\* cValue && (cValue === 'true' || cValue === 'false' || cValue.match(/^\d+$/))
IsLiteral(attr) ==
    /\ Truthy(attr, "compareValue")
    /\ \/ attr["compareValue"] = S_TRUE
       \/ attr["compareValue"] = S_FALSE
       \/ \A k \in 1..Len(attr["compareValue"]) :
             attr["compareValue"][k] \in Digit

\* the test expression isEqual builds when compareValue is no literal,
\* with the quote the code puts in front of the property
QuotedEqualTest(value, attr) ==
    <<"'">> \o value \o S_EQ \o <<"'">> \o Shown(attr, "compareValue")
        \o <<"'">>

\* TestExpr with the connectives of isNotEmpty and isEmpty exchanged
TestExprExchanged(elementName, attr, value) ==
    CASE elementName = "isNotEmpty" ->
            value \o S_NE_NULL \o S_OR \o value \o S_NE_EMPTY
      [] elementName = "isNotNull" -> value \o S_NE_NULL
      [] elementName = "isEmpty" ->
            value \o S_EQ_NULL \o S_AND \o value \o S_EQ_EMPTY
      [] elementName = "isNull" -> value \o S_EQ_NULL
      [] elementName = "isEqual" ->
            IF IsLiteral(attr) THEN value \o S_EQ \o attr["compareValue"]
            ELSE QuotedEqualTest(value, attr)

\* the `test` callbacks handed to parseAsIfTag, by element name
TestExpr(elementName, attr, value) ==
    CASE elementName = "isNotEmpty" ->
            value \o S_NE_NULL \o S_AND \o value \o S_NE_EMPTY
      [] elementName = "isNotNull" -> value \o S_NE_NULL
      [] elementName = "isEmpty" ->
            value \o S_EQ_NULL \o S_OR \o value \o S_EQ_EMPTY
      [] elementName = "isNull" -> value \o S_EQ_NULL
      [] elementName = "isEqual" ->
            IF IsLiteral(attr) THEN value \o S_EQ \o attr["compareValue"]
            ELSE QuotedEqualTest(value, attr)

----------------------------------------------------------------------------
(* ItoMConverter.parseAsIfTag *)

\* prependText after mapObject and the second trim; <<>> is undefined or ''
PrependText(attr) ==
    IF Truthy(attr, "prepend") THEN Trim(attr["prepend"]) ELSE <<>>

\* whether newAttr.test is set: the property is given and not ''
HasTest(attr) == Truthy(attr, "property")

\* newAttr
IfAttr(elementName, attr) ==
    IF HasTest(attr)
    THEN [k \in {"test"} |-> TestExpr(elementName, attr, Trim(attr["property"]))]
    ELSE NoAttrs

\* PrependedText without the space after the text of the prefix form
PrependedTextNoTrail(parentName, prependText, text) ==
    IF parentName = "set" THEN text \o <<" ">> \o prependText
    ELSE prependText \o <<" ">> \o text

\* PrependedText that does not look at the parent
PrependedTextAnyParent(parentName, prependText, text) ==
    prependText \o <<" ">> \o text \o <<" ">>

\* mayText.text after the prepend adjustment
PrependedText(parentName, prependText, text) ==
    IF parentName = "set" THEN text \o <<" ">> \o prependText
    ELSE prependText \o <<" ">> \o text \o <<" ">>

\* AdjustFirst that changes the first child whatever it is
AdjustFirstAnyNode(parentName, prependText, kids) ==
    IF prependText # <<>> /\ kids # <<>>
    THEN [kids EXCEPT ![1].text = PrependedText(parentName, prependText, @)]
    ELSE kids

\* resp.children after the prepend adjustment of resp.children[0]
AdjustFirst(parentName, prependText, kids) ==
    IF prependText # <<>> /\ kids # <<>> /\ kids[1].text # <<>>
    THEN [kids EXCEPT ![1].text = PrependedText(parentName, prependText, @)]
    ELSE kids

\* the branch with a test: the <if> pushed onto the parent
IfElement(parentName, elementName, attr, rc) ==
    IF rc.ok
    THEN Pushed(<<XmlElement("if", IfAttr(elementName, attr),
                             AdjustFirst(parentName, PrependText(attr), rc.out),
                             <<>>)>>)
    ELSE Thrown

\* the branch without a test: a text node holding prependText is created
\* and pushed, then the children go to the parent itself
Spliced(created, rc) ==
    IF created.ok THEN After(<<created.el>>, rc) ELSE Thrown

----------------------------------------------------------------------------
(* ItoMConverter.convertCommonSqlAndTags: <iterate> *)

\* /#([a-zA-Z0-90]+)\[\]/ at position i: the lengths group 1 may take
CollectionLens(s, i) ==
    IF s[i] # "#" THEN {}
    ELSE {n \in 1..RunLen(s, i + 1, Alnum) :
            OccursAt(s, <<"[", "]">>, i + 1 + n)}

CollectionAt(s, i) == SubSeq(s, i + 1, i + Least(CollectionLens(s, i)))

FirstCollection(s, hits) ==
    IF hits = {} THEN <<>> ELSE CollectionAt(s, Least(hits))

\* groups[1] of /#([a-zA-Z0-90]+)\[\]/.exec(s); <<>> when exec gives null
ExecCollection(s) ==
    FirstCollection(s, {i \in 1..Len(s) : CollectionLens(s, i) # {}})

\* FindCollection that looks at the first child only
FindCollectionFirstChild(children) ==
    IF children = <<>> THEN <<>> ELSE ExecCollection(Head(children).text)

\* the loop over the children that looks for a collection name: the first
\* child with a truthy '_' that the regex matches decides
RECURSIVE FindCollection(_)
FindCollection(children) ==
    IF children = <<>> THEN <<>>
    ELSE IF ExecCollection(Head(children).text) # <<>>
         THEN ExecCollection(Head(children).text)
         ELSE FindCollection(Tail(children))

IterateKeys == {"property", "conjunction", "open", "close"}

IterateKey(k) ==
    CASE k = "collection" -> "property"
      [] k = "separator" -> "conjunction"
      [] OTHER -> k

\* newAttr after mapObject and newAttr.item = 'listItem'
IterateMapped(attr) ==
    [k \in {"item"} \cup {x \in {"collection", "separator", "open", "close"} :
                            Truthy(attr, IterateKey(x))} |->
        IF k = "item" THEN S_LIST_ITEM ELSE Trim(attr[IterateKey(k)])]

\* newAttr when resp is created: a missing collection is looked up in the
\* children's text
WithCollection(newAttr, found) ==
    IF ~Truthy(newAttr, "collection") /\ found # <<>>
    THEN Put(newAttr, "collection", found)
    ELSE newAttr

IterateAttr(attr, children) ==
    WithCollection(IterateMapped(attr), FindCollection(children))

\* `${newAttr.collection}\[\]`
WillReplaced(newAttr) == Shown(newAttr, "collection") \o <<"[", "]">>

\* the loop over resp.children that replaces the first willReplaced of
\* each child's text
ReplaceInChildren(kids, willReplaced) ==
    [k \in 1..Len(kids) |->
        IF kids[k].text # <<>>
        THEN [kids[k] EXCEPT !.text = ReplaceFirst(@, willReplaced, S_LIST_ITEM)]
        ELSE kids[k]]

ForeachElement(newAttr, rc) ==
    IF rc.ok
    THEN Pushed(<<XmlElement("foreach", newAttr,
                             ReplaceInChildren(rc.out, WillReplaced(newAttr)),
                             <<>>)>>)
    ELSE Thrown

----------------------------------------------------------------------------
(* ItoMConverter.convertCommonSqlAndTags: <dynamic>, <selectKey>, others *)

\* the first child that is no empty text node, as a sequence of 0 or 1
RECURSIVE FirstRealChild(_)
FirstRealChild(children) ==
    IF children = <<>> THEN <<>>
    ELSE IF /\ Head(children).name = TEXT_NODE_NAME
            /\ Trim(Head(children).text) = <<>>
         THEN FirstRealChild(Tail(children))
         ELSE <<Head(children)>>

\* of(child).map(e => e.$).map(atr => atr.prepend).ifPresent(...)
WithPrefixOverrides(newAttr, first) ==
    IF first # <<>> /\ first[1].name # TEXT_NODE_NAME
                    /\ Has(first[1].attr, "prepend")
    THEN Put(newAttr, "prefixOverrides", first[1].attr["prepend"])
    ELSE newAttr

\* the name of the element <dynamic> becomes
DynamicName(attr) ==
    IF ~Truthy(attr, "prepend") THEN "dynamic"
    ELSE IF Trim(attr["prepend"]) = S_WHERE THEN "where"
    ELSE IF Trim(attr["prepend"]) = S_SET THEN "set"
    ELSE "trim"

\* the attributes of the element <dynamic> becomes
DynamicAttr(attr, children) ==
    CASE DynamicName(attr) = "dynamic" -> attr
      [] DynamicName(attr) = "trim" ->
            WithPrefixOverrides([k \in {"prefix"} |-> Trim(attr["prepend"])],
                                FirstRealChild(children))
      [] OTHER -> NoAttrs

ToLowerChar(c) ==
    CASE c = "A" -> "a" [] c = "B" -> "b" [] c = "C" -> "c" [] c = "D" -> "d"
      [] c = "E" -> "e" [] c = "F" -> "f" [] c = "G" -> "g" [] c = "H" -> "h"
      [] c = "I" -> "i" [] c = "J" -> "j" [] c = "K" -> "k" [] c = "L" -> "l"
      [] c = "M" -> "m" [] c = "N" -> "n" [] c = "O" -> "o" [] c = "P" -> "p"
      [] c = "Q" -> "q" [] c = "R" -> "r" [] c = "S" -> "s" [] c = "T" -> "t"
      [] c = "U" -> "u" [] c = "V" -> "v" [] c = "W" -> "w" [] c = "X" -> "x"
      [] c = "Y" -> "y" [] c = "Z" -> "z" [] OTHER -> c

\* String.prototype.toLowerCase
ToLowerCase(s) == [k \in 1..Len(s) |-> ToLowerChar(s[k])]

ToUpperChar(c) ==
    CASE c = "a" -> "A" [] c = "b" -> "B" [] c = "c" -> "C" [] c = "d" -> "D"
      [] c = "e" -> "E" [] c = "f" -> "F" [] c = "g" -> "G" [] c = "h" -> "H"
      [] c = "i" -> "I" [] c = "j" -> "J" [] c = "k" -> "K" [] c = "l" -> "L"
      [] c = "m" -> "M" [] c = "n" -> "N" [] c = "o" -> "O" [] c = "p" -> "P"
      [] c = "q" -> "Q" [] c = "r" -> "R" [] c = "s" -> "S" [] c = "t" -> "T"
      [] c = "u" -> "U" [] c = "v" -> "V" [] c = "w" -> "W" [] c = "x" -> "X"
      [] c = "y" -> "Y" [] c = "z" -> "Z" [] OTHER -> c

\* String.prototype.toUpperCase
ToUpperCase(s) == [k \in 1..Len(s) |-> ToUpperChar(s[k])]

\* the key mapObject's callback writes for key k of a <selectKey>
SelectKeyTarget(k) ==
    CASE k = "resultClass" -> "resultType"
      [] k = "type" -> "order"
      [] OTHER -> k

\* the value mapObject's callback writes for key k of a <selectKey>
SelectKeyValue(k, trimValue) ==
    CASE k = "resultClass" ->
            ToLowerCase(ReplaceFirst(trimValue, S_JAVA_LANG, <<>>))
      [] k = "type" -> IF trimValue = S_POST THEN S_AFTER ELSE S_BEFORE
      [] OTHER -> trimValue

\* newAttr of a <selectKey>.  (Two keys that write the same new key, type
\* and order, are not both given in the documents of this model.)
SelectKeyAttr(attr) ==
    LET src == {k \in DOMAIN attr : attr[k] # <<>>}
    IN [x \in {SelectKeyTarget(k) : k \in src} |->
          SelectKeyValue(CHOOSE k \in src : SelectKeyTarget(k) = x,
                         Trim(attr[CHOOSE k \in src : SelectKeyTarget(k) = x]))]

\* Wrapped that drops the attributes
WrappedBare(name, attr, rc) ==
    IF rc.ok THEN Pushed(<<XmlElement(name, NoAttrs, rc.out, <<>>)>>)
    ELSE Thrown

\* an element pushed onto the parent with the rewritten children in it
Wrapped(name, attr, rc) ==
    IF rc.ok THEN Pushed(<<XmlElement(name, attr, rc.out, <<>>)>>)
    ELSE Thrown

----------------------------------------------------------------------------
(* ItoMConverter.convertCommonSqlAndTags *)

\* the text branch: a text node with the filtered text is pushed
TextPushed(r) ==
    IF r.ok /\ CreateXmlElement(TEXT_NODE_NAME, NoAttrs, <<>>, r.text).ok
    THEN Pushed(<<XmlElement(TEXT_NODE_NAME, NoAttrs, <<>>, r.text)>>)
    ELSE Thrown

RECURSIVE ConvertCommonSqlAndTags(_, _)
RECURSIVE ConvertEach(_, _)
RECURSIVE ConvertRest(_, _, _)
RECURSIVE ConvertTag(_, _, _, _)

\* the rest of a children loop after the call for one child returned r
ConvertRest(r, parentName, rest) ==
    IF r.ok THEN After(r.out, ConvertEach(parentName, rest)) ELSE Thrown

\* the loops `for (const childKey in children)`: every child in turn, all
\* pushed onto the element named parentName
ConvertEach(parentName, children) ==
    IF children = <<>> THEN Pushed(<<>>)
    ELSE ConvertRest(ConvertCommonSqlAndTags(parentName, Head(children)),
                     parentName, Tail(children))

\* the switch over elementName, attr being filtered already
ConvertTag(parentName, elementName, attr, children) ==
    CASE elementName = "selectKey" ->
            Wrapped(elementName, SelectKeyAttr(attr),
                    ConvertEach(elementName, children))
      [] elementName \in GuardNames \cup {"isEqual"} ->
            IF ~HasTest(attr)
            THEN Spliced(CreateXmlElement(TEXT_NODE_NAME, NoAttrs, <<>>,
                                          PrependText(attr)),
                         ConvertEach(parentName, children))
            ELSE IfElement(parentName, elementName, attr,
                           ConvertEach("if", children))
      [] elementName = "iterate" ->
            ForeachElement(IterateAttr(attr, children),
                           ConvertEach("foreach", children))
      [] elementName = "dynamic" ->
            Wrapped(DynamicName(attr), DynamicAttr(attr, children),
                    ConvertEach(DynamicName(attr), children))
      [] OTHER ->
            Wrapped(elementName, attr, ConvertEach(elementName, children))

\* this.convertCommonSqlAndTags(parent, element), parent.name = parentName
ConvertCommonSqlAndTags(parentName, element) ==
    IF element.name = TEXT_NODE_NAME
    THEN IF element.text # <<>> /\ Trim(element.text) # <<>>
         THEN TextPushed(FilterElementTextCall(element.text, 0))
         ELSE Pushed(<<>>)
    ELSE ConvertTag(parentName, element.name,
                    FilterAttrsAndTranslate(element.attr), element.children)

\* attr after `if (attr.remapResults) delete attr.remapResults`
WithoutRemapResults(attr) ==
    IF Truthy(attr, "remapResults") THEN Delete(attr, "remapResults") ELSE attr

\* this.parseNearlyRootElements(element): ok = FALSE when it threw, out[1]
\* = the element it returns
ParseNearlyRootElements(element) ==
    Wrapped(element.name,
            WithoutRemapResults(FilterAttrsAndTranslate(element.attr)),
            ConvertEach(element.name, element.children))

----------------------------------------------------------------------------
(* ItoMConverter.parseTypeAlias, parseResultMap *)

\* parseTypeAlias that keeps an alias once it is declared
ParseTypeAliasKeepFirst(table, element) ==
    IF Has(table, Str(Get(element.attr, "alias"))) THEN table
    ELSE Put(table, Str(Get(element.attr, "alias")), Get(element.attr, "type"))

\* this.parseTypeAlias(element): this.typeAlias afterwards
ParseTypeAlias(table, element) ==
    Put(table, Str(Get(element.attr, "alias")), Get(element.attr, "type"))

\* a.jdbcType = a.jdbcType.toUpperCase()
UpperJdbcType(a) ==
    IF Truthy(a, "jdbcType") THEN Put(a, "jdbcType", ToUpperCase(a["jdbcType"]))
    ELSE a

\* ResultElement that leaves nullValue where it is
ResultElementKeepsNullValue(name, a) ==
    IF Truthy(a, "select") /\ Truthy(a, "column")
    THEN XmlElement("association", a, <<>>, <<>>)
    ELSE XmlElement(name, a, <<>>, <<>>)

\* the element made of one <result> or <id>; result['__text__'] is undefined
ResultElement(name, a) ==
    IF Truthy(a, "select") /\ Truthy(a, "column")
    THEN XmlElement("association", a, <<>>, <<>>)
    ELSE XmlElement(name, Delete(a, "nullValue"), <<>>, <<>>)

\* children.filter(...).map(...)
RECURSIVE ResultChildren(_)
ResultChildren(children) ==
    IF children = <<>> THEN <<>>
    ELSE (IF Head(children).name \in {"result", "id"}
          THEN <<ResultElement(Head(children).name,
                               UpperJdbcType(Head(children).attr))>>
          ELSE <<>>) \o ResultChildren(Tail(children))

\* this.parseResultMap(element)
ParseResultMap(element) ==
    Pushed(<<XmlElement("resultMap", FilterAttrsAndTranslate(element.attr),
                        ResultChildren(element.children), <<>>)>>)

----------------------------------------------------------------------------
(* ItoMConverter.parseParameterMap, parseProcedure *)

S_IN == <<"I", "N">>
S_OUT == <<"O", "U", "T">>
S_MAP == <<"m", "a", "p">>
S_JAVA_UTIL_MAP == <<"j", "a", "v", "a", ".", "u", "t", "i", "l", ".", "M", "a", "p">>

\* createParameterMapParameter: mode.toUpperCase() throws on undefined
CreateParameterMapParameter(property, mode, jdbcType, javaType) ==
    [ok |-> mode # Undefined,
     p |-> [property |-> property,
            mode |-> IF ToUpperCase(mode) # S_IN /\ ToUpperCase(mode) # S_OUT
                     THEN S_IN ELSE mode,
            jdbcType |-> jdbcType,
            javaType |-> javaType]]

\* a list of parameters, or the throw of createParameterMapParameter
Params(ps) == [ok |-> TRUE, ps |-> ps]
ParamsThrown == [ok |-> FALSE, ps |-> <<>>]

RECURSIVE Parameters(_)
RECURSIVE ParametersRest(_, _)
RECURSIVE ParametersJoin(_, _)

ParametersJoin(c, r) ==
    IF r.ok THEN Params(<<c.p>> \o r.ps) ELSE ParamsThrown

ParametersRest(c, rest) ==
    IF ~c.ok THEN ParamsThrown ELSE ParametersJoin(c, Parameters(rest))

\* the loop of parseParameterMap over the children
Parameters(children) ==
    IF children = <<>> THEN Params(<<>>)
    ELSE IF Head(children).name # "parameter" THEN Parameters(Tail(children))
    ELSE ParametersRest(
            CreateParameterMapParameter(Get(Head(children).attr, "property"),
                                        Get(Head(children).attr, "mode"),
                                        Get(Head(children).attr, "jdbcType"),
                                        Get(Head(children).attr, "javaType")),
            Tail(children))

\* resp of parseParameterMap
ParameterMapOf(attr, ps) ==
    [class |-> IF Get(attr, "class") = S_MAP THEN S_JAVA_UTIL_MAP
               ELSE Get(attr, "class"),
     id |-> Get(attr, "id"),
     parameters |-> ps]

ParameterMapStored(table, attr, r) ==
    IF r.ok
    THEN [ok |-> TRUE,
          table |-> Put(table, Str(Get(attr, "id")), ParameterMapOf(attr, r.ps))]
    ELSE [ok |-> FALSE, table |-> table]

\* this.parseParameterMap(element): ok = FALSE when it threw, table =
\* this.parameterMap afterwards
ParseParameterMap(table, element) ==
    ParameterMapStored(table, element.attr, Parameters(element.children))

\* procedureJoin after the loop over the children
RECURSIVE ProcedureJoin(_)
ProcedureJoin(children) ==
    IF children = <<>> THEN <<>>
    ELSE (IF Head(children).text = <<>> THEN S_UNDEFINED
          ELSE Head(children).text) \o ProcedureJoin(Tail(children))

\* `${LINE_SEPARATOR}#{${param.property},mode=${param.mode},jdbcType=${param.jdbcType}}`
ProcedureProp(param) ==
    LINE_SEPARATOR \o <<"#", "{">> \o Str(param.property)
        \o <<",", "m", "o", "d", "e", "=">> \o Str(param.mode)
        \o <<",", "j", "d", "b", "c", "T", "y", "p", "e", "=">>
        \o Str(param.jdbcType) \o <<"}">>

\* ReplaceMarkers that takes the parameters from the last to the first
RECURSIVE ReplaceMarkersBackwards(_, _)
ReplaceMarkersBackwards(procedureJoin, parameters) ==
    IF parameters = <<>> THEN procedureJoin
    ELSE ReplaceMarkersBackwards(
            ReplaceFirst(procedureJoin, <<"?">>,
                         ProcedureProp(parameters[Len(parameters)])),
            SubSeq(parameters, 1, Len(parameters) - 1))

\* the loop `for (const param of parameterMap.parameters)`
RECURSIVE ReplaceMarkers(_, _)
ReplaceMarkers(procedureJoin, parameters) ==
    IF parameters = <<>> THEN procedureJoin
    ELSE ReplaceMarkers(ReplaceFirst(procedureJoin, <<"?">>,
                                     ProcedureProp(Head(parameters))),
                        Tail(parameters))

HasMarker(s) == \E k \in 1..Len(s) : s[k] = "?"

\* newAttr of parseProcedure.  (A procedure of this model does not carry
\* parameterMap together with parameterClass.)
ProcedureAttr(table, attr) ==
    [k \in (DOMAIN attr \ {"parameterMap"})
           \cup (IF Has(attr, "parameterMap") THEN {"parameterType"} ELSE {}) |->
        IF k = "parameterType" /\ Has(attr, "parameterMap")
        THEN Get(table, Str(attr["parameterMap"])).class
        ELSE attr[k]]

\* the parameterMap attribute names a map that is not registered
UnknownParameterMap(table, attr) ==
    Has(attr, "parameterMap") /\ ~Has(table, Str(attr["parameterMap"]))

\* resp with its text set
ProcedureElement(newAttr, r) ==
    IF r.ok THEN Pushed(<<XmlElement("select", newAttr, <<>>, r.text)>>)
    ELSE Thrown

ProcedureBody(table, attr, procedureJoin) ==
    IF HasMarker(procedureJoin) /\ ~Has(attr, "parameterMap") THEN Thrown
    ELSE ProcedureElement(
            ProcedureAttr(table, attr),
            FilterElementTextCall(
                IF HasMarker(procedureJoin)
                THEN ReplaceMarkers(procedureJoin,
                        table[Str(attr["parameterMap"])].parameters)
                ELSE procedureJoin, 0))

ProcedureFiltered(table, attr, children) ==
    IF UnknownParameterMap(table, attr) THEN Thrown
    ELSE ProcedureBody(table, attr, ProcedureJoin(children))

\* this.parseProcedure(element): ok = FALSE when it threw, out[1] = the
\* element it returns
ParseProcedure(table, element) ==
    ProcedureFiltered(table, FilterAttrsAndTranslate(element.attr),
                      element.children)

----------------------------------------------------------------------------
(* ItoMConverter.buildXmlOnce *)

\* a node of the xmlbuilder document: kind is "ele", "cdata", "raw" or "text"
XmlNode(kind, name, attr, text, children) ==
    [kind |-> kind, name |-> name, attr |-> attr, text |-> text,
     children |-> children]

\* element.text.match(/[<>]/)
HasAngle(text) == \E k \in 1..Len(text) : text[k] \in {"<", ">"}

\* the node made of a text: cdata with an angle bracket in it, else plain
TextNode(plain, text) ==
    <<XmlNode(IF HasAngle(text) THEN "cdata" ELSE plain, "", NoAttrs, text,
              <<>>)>>

\* NullAttr that lets every value pass
NullAttrIgnored(attr) == FALSE

NullAttr(attr) == \E k \in DOMAIN attr : attr[k] = Undefined

RECURSIVE Recursive(_)
RECURSIVE BuildEach(_)
RECURSIVE BuildRest(_, _)

BuildRest(r, rest) ==
    IF r.ok THEN After(r.out, BuildEach(rest)) ELSE Thrown

\* element.children.forEach(recursive) and the loop of buildXmlOnce
BuildEach(els) ==
    IF els = <<>> THEN Pushed(<<>>)
    ELSE BuildRest(Recursive(Head(els)), Tail(els))

BuiltElement(element, kids) ==
    IF kids.ok
    THEN Pushed(<<XmlNode("ele", element.name, element.attr, <<>>,
                          (IF element.text # <<>>
                           THEN TextNode("text", element.text) ELSE <<>>)
                              \o kids.out)>>)
    ELSE Thrown

\* recursive(parent, element): the nodes put below parent
Recursive(element) ==
    IF element.name = TEXT_NODE_NAME
    THEN Pushed(IF element.text # <<>> THEN TextNode("raw", element.text)
                ELSE <<>>)
    ELSE IF NullAttr(element.attr) THEN Thrown
    ELSE BuiltElement(element, BuildEach(element.children))

\* this.buildXmlOnce(elements)
BuildXmlOnce(els) == BuildEach(els)

----------------------------------------------------------------------------
(* optional.ts *)

\* the values null and undefined, and the call empty() in place of of(v)
Null == "null"
Undef == "undefined"
EmptyCall == "empty()"

\* new None(), new Some(obj)
None == [kind |-> "None", obj |-> Undef]
Some(obj) == [kind |-> "Some", obj |-> obj]

\* of(value)
Of(value) == IF value = Undef \/ value = Null THEN None ELSE Some(value)

\* empty()
Empty == None

\* None.isPresent(), Some.isPresent()
IsPresent(o) == IF o.kind = "None" THEN TRUE ELSE TRUE

\* None.filter(filter), Some.filter(filter)
Filter(o, filter) ==
    IF o.kind = "None" THEN o
    ELSE IF filter[o.obj] THEN None ELSE o

----------------------------------------------------------------------------
(* Specification SpecAttrs: filterAttrsAndTranslate applied repeatedly *)

AliasA == <<"A">>
AliasB == <<"B">>
TypeA == <<"c", "o", "m", ".", "x", ".", "A">>
TypeA2 == <<"c", "o", "m", ".", "y", ".", "A">>

AttrKeys == {"class", "parameterClass", "resultClass", "type", "id"}
AttrValues == {AliasA, <<" ", "A", " ">>, AliasB, <<>>}
AttrObjs == UNION {[K -> AttrValues] : K \in SUBSET AttrKeys}

\* registries a document can build: empty, one alias, an alias whose type
\* is itself an alias
AliasTables ==
    { NoAttrs,
      [k \in {AliasA} |-> TypeA],
      [k \in {AliasA, AliasB} |-> IF k = AliasA THEN AliasB ELSE TypeA],
      [k \in {AliasA, AliasB} |-> IF k = AliasA THEN TypeA ELSE AliasA] }

TextIdle ==
    /\ ftIn = <<>>
    /\ ftOut = <<>>
    /\ ftOk = TRUE
    /\ ftPc = "idle"
    /\ regexLastIndex = 0

AttrIdle ==
    /\ faOrig = NoAttrs
    /\ faOnce = NoAttrs
    /\ faObj = NoAttrs
    /\ faApplied = 0

ConvIdle ==
    /\ cvWrap = "none"
    /\ cvTag = SrcText(<<>>)
    /\ cvOut = Thrown
    /\ cvPc = "idle"

ParseIdle ==
    /\ pDoc = <<>>
    /\ pIdx = 1
    /\ elements = <<>>
    /\ pXml = <<>>
    /\ pStatus = "idle"
    /\ parameterMap = NoAttrs

BatchIdle ==
    /\ pQueue = <<>>
    /\ pRun = "idle"
    /\ pSolo = Thrown

DriverIdle ==
    /\ dItems = <<>>
    /\ dCurrent = 0
    /\ dPc = "idle"
    /\ dHanded = <<>>
    /\ dWritten = <<>>
    /\ dFailed = <<>>

OptIdle ==
    /\ oSrc = Undef
    /\ oThis = None
    /\ oRet = [op |-> "none"]
    /\ oCalls = 0

InitAttrs ==
    /\ faOrig \in AttrObjs
    /\ faObj = faOrig
    /\ faOnce = NoAttrs
    /\ faApplied = 0
    /\ typeAlias \in AliasTables
    /\ TextIdle
    /\ ConvIdle
    /\ ParseIdle
    /\ BatchIdle
    /\ DriverIdle
    /\ OptIdle

\* this.filterAttrsAndTranslate(obj)
ApplyFilterAttrs ==
    /\ faApplied < MaxApplications
    /\ faObj' = FilterAttrsAndTranslate(faObj)
    /\ faOnce' = IF faApplied = 0 THEN faObj' ELSE faOnce
    /\ faApplied' = faApplied + 1
    /\ UNCHANGED <<optVars, faOrig, textVars, convVars, parseVars, batchVars, driverVars,
                 typeAlias>>

NextAttrs == ApplyFilterAttrs

SpecAttrs == InitAttrs /\ [][NextAttrs]_vars

----------------------------------------------------------------------------
(* Specification SpecText: one call of filterElementText per text *)

InitText ==
    /\ ftIn \in Texts \ {<<>>}
    /\ ftOut = <<>>
    /\ ftOk = TRUE
    /\ ftPc = "ready"
    /\ regexLastIndex = 0
    /\ AttrIdle
    /\ ConvIdle
    /\ ParseIdle
    /\ BatchIdle
    /\ DriverIdle
    /\ OptIdle
    /\ typeAlias = NoAttrs

FilterReturns(r) ==
    /\ ftOut' = r.text
    /\ ftOk' = r.ok
    /\ regexLastIndex' = r.lastIndex

\* this.filterElementText(text)
FilterElementText ==
    /\ ftPc = "ready"
    /\ FilterReturns(FilterElementTextCall(ftIn, regexLastIndex))
    /\ ftPc' = "returned"
    /\ UNCHANGED <<optVars, ftIn, attrVars, convVars, parseVars, batchVars, driverVars,
                 typeAlias>>

NextText == FilterElementText

SpecText == InitText /\ [][NextText]_vars

----------------------------------------------------------------------------
(* Specification SpecConvert: parseNearlyRootElements on one statement that *)
(* holds a text run and then one element, alone or inside a <dynamic>       *)

V_P == <<"p">>
V_P_PADDED == <<" ", "p", " ">>
V_Q == <<"q">>
V_AND == <<"A", "N", "D">>
V_OR == <<"O", "R">>
V_COMMA_PADDED == <<" ", ",", " ">>
V_12 == <<"1", "2">>
V_AB == <<"a", "b">>
V_LIST == <<"l", "i", "s", "t">>
V_IDS == <<"i", "d", "s">>
V_IDS_PADDED == <<" ", "i", "d", "s", " ">>
V_S1 == <<"s", "1">>

\* the values an attribute of the element looked at may have
ValuesOf(k) ==
    CASE k = "property" -> {V_P, V_P_PADDED}
      [] k = "prepend" -> {V_AND, V_COMMA_PADDED}
      [] k = "compareValue" -> {S_TRUE, V_12, V_AB}
      [] k = "conjunction" -> {<<",">>}

\* the attribute objects on (a subset of) the keys
AttrsOn(keys) ==
    {a \in UNION {[K -> UNION {ValuesOf(k) : k \in keys}] : K \in SUBSET keys} :
        \A k \in DOMAIN a : a[k] \in ValuesOf(k)}

T_A == SrcText(<<" ", "a", " ", "=", " ", "#", "a", "#", " ">>)
T_BLANK == SrcText(<<" ", "\n">>)
T_LIST == SrcText(<<"#", "l", "i", "s", "t", "[", "]", "#">>)
T_IDS == SrcText(<<"i", "n", " ", "#", "i", "d", "s", "[", "]", "#">>)
\* a guard with a property and no prepend
G_TEST == SrcElem("isNotNull", [k \in {"property"} |-> V_Q],
                  <<SrcText(<<"b", "=", "$", "b", "$">>)>>)
\* a guard with a prepend and no property
G_PREPEND == SrcElem("isNull", [k \in {"prepend"} |-> V_OR],
                     <<SrcText(<<"c">>)>>)
\* a guard with neither
G_BARE == SrcElem("isEmpty", [k \in {"open"} |-> <<"(">>],
                  <<SrcText(<<"d">>)>>)
\* a tag the rule table does not know, with an aliased class
U_FOO == SrcElem("foo", [k \in {"class"} |-> AliasA], <<>>)

ChildPool == {T_A, T_BLANK, T_LIST, T_IDS, G_TEST, G_PREPEND, G_BARE, U_FOO}
ChildSeqs == SeqsUpTo(ChildPool, MaxChildren)

GuardElems ==
    {SrcElem(n, a, ch) :
        n \in GuardNames, a \in AttrsOn({"property", "prepend"}),
        ch \in ChildSeqs}
EqualElems ==
    {SrcElem("isEqual", a, ch) :
        a \in AttrsOn({"property", "prepend", "compareValue"}),
        ch \in ChildSeqs}
IterateElems ==
    {SrcElem("iterate", a, ch) :
        a \in {[x \in DOMAIN b |-> IF x = "property" /\ b[x] = V_P THEN V_LIST
                                   ELSE IF x = "property" THEN V_IDS_PADDED
                                   ELSE b[x]] :
                 b \in AttrsOn({"property", "conjunction"})},
        ch \in ChildSeqs}

\* a text that names the collection twice
T_TWICE == SrcText(<<"#", "l", "i", "s", "t", "[", "]", "#", ",",
                     "#", "l", "i", "s", "t", "[", "]", "#">>)
\* a guard whose text names the collection
G_LIST == SrcElem("isNotNull", [k \in {"property"} |-> V_Q],
                  <<SrcText(<<"#", "l", "i", "s", "t", "[", "]", "#">>)>>)

\* loops whose collection is named in texts at several places and depths
LoopElems ==
    {SrcElem("iterate", a, ch) :
        a \in {NoAttrs, [k \in {"property"} |-> V_LIST]},
        ch \in SeqsUpTo({T_A, T_LIST, T_TWICE, G_LIST}, MaxChildren)}

\* elements with a tag name no rule knows
UnknownElems ==
    {SrcElem("foo", [k \in {"class"} |-> AliasA], ch) : ch \in ChildSeqs}

V_JAVA_LANG_INTEGER ==
    <<"j", "a", "v", "a", ".", "l", "a", "n", "g", ".", "I", "n", "t", "e",
      "g", "e", "r">>
V_LONG_PADDED == <<" ", "L", "o", "n", "g", " ">>
V_PRE == <<"p", "r", "e">>

SelectKeyElems ==
    {SrcElem("selectKey", a, <<T_A>>) :
        a \in {b \in UNION {[K -> {V_JAVA_LANG_INTEGER, V_LONG_PADDED, AliasA,
                                    V_P, S_POST, V_PRE}] :
                              K \in SUBSET {"resultClass", "keyProperty", "type"}} :
                  /\ Has(b, "resultClass") =>
                        b["resultClass"] \in {V_JAVA_LANG_INTEGER, V_LONG_PADDED,
                                              AliasA}
                  /\ Has(b, "keyProperty") => b["keyProperty"] = V_P
                  /\ Has(b, "type") => b["type"] \in {S_POST, V_PRE}}}

DynamicElems ==
    {SrcElem("dynamic", a, ch) :
        a \in {NoAttrs} \cup
              {[k \in {"prepend"} |-> v] :
                  v \in {S_WHERE, <<" ">> \o S_WHERE \o <<" ">>, S_SET, V_AND}},
        ch \in ChildSeqs}

Wraps == {"none", "where", "set", "trim"}

\* the prepend of the <dynamic> around the element looked at
WrapPrepend(wrap) ==
    CASE wrap = "where" -> <<" ">> \o S_WHERE
      [] wrap = "set" -> S_SET
      [] wrap = "trim" -> <<"W", "H", "E", "R", "E">>

\* the statement as parsed
Statement(wrap, tag) ==
    SrcElem(IF wrap = "set" THEN "update" ELSE "select",
            [k \in {"id"} |-> V_S1],
            <<SrcText(<<"s", "q", "l">>),
              IF wrap = "none" THEN tag
              ELSE SrcElem("dynamic", [k \in {"prepend"} |-> WrapPrepend(wrap)],
                           <<tag>>)>>)

InitConvert ==
    /\ cvWrap \in Wraps
    /\ cvTag \in GuardElems \cup EqualElems \cup IterateElems \cup LoopElems
                \cup UnknownElems \cup SelectKeyElems \cup DynamicElems
    /\ cvOut = Thrown
    /\ cvPc = "ready"
    /\ typeAlias = [k \in {AliasA} |-> TypeA]
    /\ TextIdle
    /\ AttrIdle
    /\ ParseIdle
    /\ BatchIdle
    /\ DriverIdle
    /\ OptIdle

\* this.parseNearlyRootElements(tag) in the root loop of parse
ConvertStatement ==
    /\ cvPc = "ready"
    /\ cvOut' = ParseNearlyRootElements(Statement(cvWrap, cvTag))
    /\ cvPc' = "done"
    /\ UNCHANGED <<optVars, cvWrap, cvTag, textVars, attrVars, parseVars, batchVars, driverVars,
                 typeAlias>>

NextConvert == ConvertStatement

SpecConvert == InitConvert /\ [][NextConvert]_vars

----------------------------------------------------------------------------
(* Specification SpecParse: parse on one document, one root child a step *)

V_R == <<"r">>
V_M == <<"m">>
V_ID == <<"I", "D">>
V_INT == <<"i", "n", "t">>
V_IN_LOWER == <<"i", "n">>
V_SEL == <<"s", "e", "l">>

TA_FIRST == SrcElem("typeAlias", [k \in {"alias", "type"} |->
                        IF k = "alias" THEN AliasA ELSE TypeA], <<>>)
\* the same alias declared again with another type
TA_AGAIN == SrcElem("typeAlias", [k \in {"alias", "type"} |->
                        IF k = "alias" THEN AliasA ELSE TypeA2], <<>>)

R_PLAIN == SrcElem("result", [k \in {"column", "property", "jdbcType", "nullValue"} |->
                        CASE k = "column" -> V_ID [] k = "property" -> V_P
                          [] k = "jdbcType" -> V_INT [] k = "nullValue" -> <<"0">>],
                   <<>>)
R_SELECT == SrcElem("result", [k \in {"column", "select"} |->
                        IF k = "column" THEN V_ID ELSE V_SEL], <<>>)
RM_A == SrcElem("resultMap", [k \in {"id", "class"} |->
                        IF k = "id" THEN V_R ELSE AliasA],
                <<T_BLANK, R_PLAIN, U_FOO, R_SELECT>>)

\* a statement whose parameterClass is the alias with white space around it
SEL_A == SrcElem("select", [k \in {"id", "parameterClass"} |->
                        IF k = "id" THEN V_S1 ELSE <<" ">> \o AliasA \o <<" ">>],
                 <<T_A>>)
\* a statement whose body holds a guard with neither property nor prepend
DEL_BARE == SrcElem("delete", [k \in {"id"} |-> V_S1], <<T_A, G_BARE>>)

PARAM_IN == SrcElem("parameter", [k \in {"property", "mode", "jdbcType"} |->
                        CASE k = "property" -> V_P [] k = "mode" -> V_IN_LOWER
                          [] k = "jdbcType" -> V_INT], <<>>)
PARAM_OUT == SrcElem("parameter", [k \in {"property", "mode", "jdbcType"} |->
                        CASE k = "property" -> V_Q [] k = "mode" -> S_OUT
                          [] k = "jdbcType" -> V_INT], <<>>)
PM_MAP == SrcElem("parameterMap", [k \in {"id", "class"} |->
                        IF k = "id" THEN V_M ELSE S_MAP],
                  <<T_BLANK, PARAM_IN, PARAM_OUT>>)
\* a parameter map that declares no class
PM_BARE == SrcElem("parameterMap", [k \in {"id"} |-> V_M],
                   <<PARAM_IN, PARAM_OUT>>)
PROC_M == SrcElem("procedure", [k \in {"id", "parameterMap"} |->
                        IF k = "id" THEN V_S1 ELSE V_M],
                  <<SrcText(<<"f", "(", "?", ")">>)>>)

\* a procedure with as many markers as the map has parameters
PROC_TWO == SrcElem("procedure", [k \in {"id", "parameterMap"} |->
                        IF k = "id" THEN V_S1 ELSE V_M],
                    <<SrcText(<<"f", "(", "?", ",", "?", ")">>)>>)
\* a procedure with a marker and no parameterMap attribute
PROC_BARE == SrcElem("procedure", [k \in {"id"} |-> V_S1],
                     <<SrcText(<<"f", "(", "?", ")">>)>>)

ROOT_OTHER == SrcElem("cacheModel", [k \in {"id"} |-> V_R], <<>>)

RootPool ==
    {TA_FIRST, TA_AGAIN, RM_A, SEL_A, DEL_BARE, PM_MAP, PM_BARE, PROC_M,
     PROC_TWO, PROC_BARE, T_BLANK, ROOT_OTHER}
Docs == SeqsUpTo(RootPool, MaxRootChildren)

\* StatementNames without select
StatementNamesNoSelect == {"sql", "insert", "update", "delete"}

StatementNames == {"sql", "select", "insert", "update", "delete"}
RootNames ==
    {"typeAlias", "resultMap", "parameterMap", "procedure"} \cup StatementNames

InitParse ==
    /\ pDoc \in Docs
    /\ pIdx = 1
    /\ elements = <<>>
    /\ pXml = <<>>
    /\ pStatus = "parsing"
    /\ parameterMap = NoAttrs
    /\ typeAlias = NoAttrs
    /\ TextIdle
    /\ AttrIdle
    /\ ConvIdle
    /\ BatchIdle
    /\ DriverIdle
    /\ OptIdle

\* the loop is at a root child named one of names
AtRootChild(names) ==
    /\ pStatus = "parsing"
    /\ pIdx <= Len(pDoc)
    /\ pDoc[pIdx].name \in names

\* ElementPushed that leaves a throwing child out and goes on
ElementPushedOrSkipped(r) ==
    /\ elements' = IF r.ok THEN elements \o r.out ELSE elements
    /\ pIdx' = pIdx + 1
    /\ pStatus' = pStatus

\* elements.push(r) and on to the next child, or the throw
ElementPushed(r) ==
    /\ elements' = IF r.ok THEN elements \o r.out ELSE elements
    /\ pIdx' = IF r.ok THEN pIdx + 1 ELSE pIdx
    /\ pStatus' = IF r.ok THEN pStatus ELSE "thrown"

\* case 'typeAlias'
RootTypeAlias ==
    /\ AtRootChild({"typeAlias"})
    /\ typeAlias' = ParseTypeAlias(typeAlias, pDoc[pIdx])
    /\ pIdx' = pIdx + 1
    /\ UNCHANGED <<optVars, pDoc, elements, pXml, pStatus, parameterMap,
                   textVars, attrVars, convVars, batchVars, driverVars>>

\* case 'resultMap'
RootResultMap ==
    /\ AtRootChild({"resultMap"})
    /\ ElementPushed(ParseResultMap(pDoc[pIdx]))
    /\ UNCHANGED <<optVars, pDoc, pXml, parameterMap, typeAlias,
                   textVars, attrVars, convVars, batchVars, driverVars>>

\* case 'sql', 'select', 'insert', 'update', 'delete'
RootStatement ==
    /\ AtRootChild(StatementNames)
    /\ ElementPushed(ParseNearlyRootElements(pDoc[pIdx]))
    /\ UNCHANGED <<optVars, pDoc, pXml, parameterMap, typeAlias,
                   textVars, attrVars, convVars, batchVars, driverVars>>

ParameterMapParsed(r) ==
    /\ parameterMap' = r.table
    /\ pIdx' = IF r.ok THEN pIdx + 1 ELSE pIdx
    /\ pStatus' = IF r.ok THEN pStatus ELSE "thrown"

\* case 'parameterMap'
RootParameterMap ==
    /\ AtRootChild({"parameterMap"})
    /\ ParameterMapParsed(ParseParameterMap(parameterMap, pDoc[pIdx]))
    /\ UNCHANGED <<optVars, pDoc, elements, pXml, typeAlias,
                   textVars, attrVars, convVars, batchVars, driverVars>>

\* case 'procedure'
RootProcedure ==
    /\ AtRootChild({"procedure"})
    /\ ElementPushed(ParseProcedure(parameterMap, pDoc[pIdx]))
    /\ UNCHANGED <<optVars, pDoc, pXml, parameterMap, typeAlias,
                   textVars, attrVars, convVars, batchVars, driverVars>>

\* case TEXT_NODE_NAME and default: nothing but a log line
RootSkipped ==
    /\ pStatus = "parsing"
    /\ pIdx <= Len(pDoc)
    /\ pDoc[pIdx].name \notin RootNames
    /\ pIdx' = pIdx + 1
    /\ UNCHANGED <<optVars, pDoc, elements, pXml, pStatus, parameterMap, typeAlias,
                   textVars, attrVars, convVars, batchVars, driverVars>>

Built(r) ==
    /\ pXml' = r.out
    /\ pStatus' = IF r.ok THEN "done" ELSE "thrown"

\* this.buildXmlOnce(elements); cb(this.xml)
BuildAndCallBack ==
    /\ pStatus = "parsing"
    /\ pIdx > Len(pDoc)
    /\ Built(BuildXmlOnce(elements))
    /\ UNCHANGED <<optVars, pDoc, pIdx, elements, parameterMap, typeAlias,
                   textVars, attrVars, convVars, batchVars, driverVars>>

NextParse ==
    \/ RootTypeAlias
    \/ RootResultMap
    \/ RootStatement
    \/ RootParameterMap
    \/ RootProcedure
    \/ RootSkipped
    \/ BuildAndCallBack

SpecParse == InitParse /\ [][NextParse]_vars

----------------------------------------------------------------------------
(* Specification SpecParameterMap: a document that is one parameter map *)

V_OUT_MIXED == <<"O", "u", "t">>
V_INOUT == <<"I", "N", "O", "U", "T">>

\* the mode attribute of a parameter: declared, declared empty, or absent
ModeValues == {S_IN, S_OUT, V_IN_LOWER, V_OUT_MIXED, V_INOUT, <<>>}
ParamAttrs ==
    {[k \in {"property", "mode", "jdbcType"} |->
         CASE k = "property" -> pr [] k = "mode" -> mo [] k = "jdbcType" -> V_INT] :
         pr \in {V_P, V_Q}, mo \in ModeValues}
    \cup {[k \in {"property", "jdbcType"} |->
             IF k = "property" THEN V_P ELSE V_INT]}
ParamPool == {SrcElem("parameter", a, <<>>) : a \in ParamAttrs} \cup {T_BLANK}
ParameterMaps ==
    {SrcElem("parameterMap",
             [k \in {"id", "class"} |-> IF k = "id" THEN V_M ELSE S_MAP], c) :
        c \in SeqsUpTo(ParamPool, MaxParameters)}

InitParameterMap ==
    /\ pDoc \in {<<pm>> : pm \in ParameterMaps}
    /\ pIdx = 1
    /\ elements = <<>>
    /\ pXml = <<>>
    /\ pStatus = "parsing"
    /\ parameterMap = NoAttrs
    /\ typeAlias = NoAttrs
    /\ TextIdle
    /\ AttrIdle
    /\ ConvIdle
    /\ BatchIdle
    /\ DriverIdle
    /\ OptIdle

NextParameterMap ==
    \/ RootParameterMap
    \/ BuildAndCallBack

SpecParameterMap == InitParameterMap /\ [][NextParameterMap]_vars

----------------------------------------------------------------------------
(* Specification SpecResultMap: a document that is one result map *)

\* the attributes of a <result>: property always, the others or not
ResultAttrs ==
    {[k \in K \cup {"property"} |->
         CASE k = "property" -> V_P [] k = "column" -> V_ID
           [] k = "select" -> V_SEL [] k = "jdbcType" -> V_INT
           [] k = "nullValue" -> <<"0">>] :
         K \in SUBSET {"column", "select", "jdbcType", "nullValue"}}
\* the attributes of an <id>
IdAttrs ==
    {[k \in K \cup {"property"} |->
         CASE k = "property" -> V_Q [] k = "column" -> V_ID
           [] k = "select" -> V_SEL [] k = "jdbcType" -> V_INT] :
         K \in SUBSET {"column", "select", "jdbcType"}}
ResultPool ==
    {SrcElem("result", a, <<>>) : a \in ResultAttrs}
    \cup {SrcElem("id", a, <<>>) : a \in IdAttrs}
    \cup {T_BLANK, U_FOO}
ResultMaps ==
    {SrcElem("resultMap",
             [k \in {"id", "class"} |-> IF k = "id" THEN V_R ELSE AliasA], c) :
        c \in SeqsUpTo(ResultPool, MaxResultChildren)}

InitResultMap ==
    /\ pDoc \in {<<rm>> : rm \in ResultMaps}
    /\ pIdx = 1
    /\ elements = <<>>
    /\ pXml = <<>>
    /\ pStatus = "parsing"
    /\ parameterMap = NoAttrs
    /\ typeAlias = NoAttrs
    /\ TextIdle
    /\ AttrIdle
    /\ ConvIdle
    /\ BatchIdle
    /\ DriverIdle
    /\ OptIdle

NextResultMap ==
    \/ RootResultMap
    \/ BuildAndCallBack

SpecResultMap == InitResultMap /\ [][NextResultMap]_vars

----------------------------------------------------------------------------
(* Specification SpecOptional: an Optional is made and methods are called *)

OptValues == {"", "0", "a", "b"}
OptSources == OptValues \cup {Null, Undef, EmptyCall}
\* the predicates given to filter
Predicates == [OptValues -> BOOLEAN]

InitOptional ==
    /\ oSrc \in OptSources
    /\ oThis = IF oSrc = EmptyCall THEN Empty ELSE Of(oSrc)
    /\ oRet = [op |-> "none"]
    /\ oCalls = 0
    /\ typeAlias = NoAttrs
    /\ TextIdle
    /\ AttrIdle
    /\ ConvIdle
    /\ ParseIdle
    /\ BatchIdle
    /\ DriverIdle

\* oThis.isPresent()
IsPresentCall ==
    /\ oCalls < MaxOptionalCalls
    /\ oRet' = [op |-> "isPresent", on |-> oThis, present |-> IsPresent(oThis)]
    /\ oCalls' = oCalls + 1
    /\ UNCHANGED <<oSrc, oThis, textVars, attrVars, convVars, parseVars,
                   batchVars, driverVars, typeAlias>>

\* oThis.filter(pred), the result being the Optional called next
FilterCall ==
    /\ oCalls < MaxOptionalCalls
    /\ \E pred \in Predicates :
          /\ oRet' = [op |-> "filter", on |-> oThis, pred |-> pred,
                      ret |-> Filter(oThis, pred)]
          /\ oThis' = Filter(oThis, pred)
    /\ oCalls' = oCalls + 1
    /\ UNCHANGED <<oSrc, textVars, attrVars, convVars, parseVars,
                   batchVars, driverVars, typeAlias>>

NextOptional ==
    \/ IsPresentCall
    \/ FilterCall

SpecOptional == InitOptional /\ [][NextOptional]_vars

----------------------------------------------------------------------------
(* Specification SpecBatch: two documents converted one after the other in
   one process, after the second one was converted by itself *)

\* parse(path, cb) with registries that all converters share
ParseCalledSharedRegistries(doc) ==
    /\ pDoc' = doc
    /\ pIdx' = 1
    /\ elements' = <<>>
    /\ pXml' = <<>>
    /\ pStatus' = "parsing"
    /\ parameterMap' = parameterMap
    /\ typeAlias' = typeAlias

\* parse(path, cb): new ItoMConverter(path).parse(cb), up to the point where
\* parseString has delivered the root children doc
ParseCalled(doc) ==
    /\ pDoc' = doc
    /\ pIdx' = 1
    /\ elements' = <<>>
    /\ pXml' = <<>>
    /\ pStatus' = "parsing"
    /\ parameterMap' = NoAttrs
    /\ typeAlias' = NoAttrs

\* the first document declares an alias and a parameter map, the second one
\* may use them with or without declaring them itself
FirstPool == {TA_FIRST, PM_MAP, SEL_A, T_BLANK}
SecondPool == {TA_FIRST, RM_A, PM_MAP, PROC_M, SEL_A}
FirstDocs == SeqsUpTo(FirstPool, MaxBatchDocLen)
SecondDocs == SeqsUpTo(SecondPool, MaxBatchDocLen)

\* what a finished conversion gave
Outcome == [ok |-> pStatus = "done", out |-> pXml]

InitBatch ==
    /\ pQueue \in {<<d1, d2>> : d1 \in FirstDocs, d2 \in SecondDocs}
    /\ pRun = "alone"
    /\ pSolo = Thrown
    /\ pDoc = pQueue[2]
    /\ pIdx = 1
    /\ elements = <<>>
    /\ pXml = <<>>
    /\ pStatus = "parsing"
    /\ parameterMap = NoAttrs
    /\ typeAlias = NoAttrs
    /\ TextIdle
    /\ AttrIdle
    /\ ConvIdle
    /\ DriverIdle
    /\ OptIdle

\* the program is started again, on the two documents
StartBatch ==
    /\ pRun = "alone"
    /\ pStatus \in {"done", "thrown"}
    /\ pSolo' = Outcome
    /\ pRun' = "batch"
    /\ ParseCalled(Head(pQueue))
    /\ pQueue' = Tail(pQueue)
    /\ UNCHANGED <<optVars, textVars, attrVars, convVars, driverVars>>

\* the callback of the document before calls parse for the next one
NextDocument ==
    /\ pRun = "batch"
    /\ pStatus = "done"
    /\ pQueue # <<>>
    /\ ParseCalled(Head(pQueue))
    /\ pQueue' = Tail(pQueue)
    /\ UNCHANGED <<optVars, pRun, pSolo, textVars, attrVars, convVars, driverVars>>

NextBatch ==
    \/ StartBatch
    \/ NextDocument
    \/ RootTypeAlias
    \/ RootResultMap
    \/ RootStatement
    \/ RootParameterMap
    \/ RootProcedure
    \/ RootSkipped
    \/ BuildAndCallBack

SpecBatch == InitBatch /\ [][NextBatch]_vars

----------------------------------------------------------------------------
(* Specification SpecDriver: the command line program on one directory *)

S_DOT_XML == <<".", "x", "m", "l">>

\* fileName.match(/\.xml$/)
EndsWithXml(fileName) ==
    /\ Len(fileName) >= Len(S_DOT_XML)
    /\ SubSeq(fileName, Len(fileName) - Len(S_DOT_XML) + 1, Len(fileName))
           = S_DOT_XML

\* a directory entry: its name, whether readFile can read it, and the root
\* children parseString delivers for it
Entry(name, readable, data) ==
    [name |-> name, readable |-> readable, data |-> data]

F_A == Entry(<<"a">> \o S_DOT_XML, TRUE, <<SEL_A>>)
F_C == Entry(<<"c">> \o S_DOT_XML, TRUE,
             <<TA_FIRST, RM_A, PM_MAP, PROC_M, T_BLANK>>)
\* a file whose conversion throws
F_B == Entry(<<"b">> \o S_DOT_XML, TRUE, <<DEL_BARE>>)
\* a file that is no mapper
F_N == Entry(<<"n", ".", "t", "x", "t">>, TRUE, <<>>)
\* a directory whose name ends in .xml
F_D == Entry(<<"d">> \o S_DOT_XML, FALSE, <<>>)

FilePool == {F_A, F_B, F_C, F_N, F_D}
\* a directory lists each name once, in any order
Listings ==
    {l \in SeqsUpTo(FilePool, MaxFiles) :
        \A i, j \in 1..Len(l) : i # j => l[i].name # l[j].name}

InitDriver ==
    /\ dItems \in Listings
    /\ dCurrent = 0
    /\ dPc = "readdir"
    /\ dHanded = <<>>
    /\ dWritten = <<>>
    /\ dFailed = <<>>
    /\ typeAlias = NoAttrs
    /\ TextIdle
    /\ AttrIdle
    /\ ConvIdle
    /\ ParseIdle
    /\ BatchIdle
    /\ OptIdle

\* the rest of runner once gen.next() gave the entry at index k
RunnerOn(k) ==
    IF dItems[k].name = <<>>
    THEN /\ dPc' = "crashed"
         /\ dHanded' = dHanded
    ELSE IF ~EndsWithXml(dItems[k].name)
    THEN /\ dPc' = "exit"
         /\ dHanded' = dHanded
    ELSE /\ dPc' = "readFile"
         /\ dHanded' = Append(dHanded, k)

\* runner with an iterator whose next does not move on
RunnerStuck ==
    IF dCurrent >= Len(dItems)
    THEN /\ dPc' = "exit"
         /\ UNCHANGED <<dCurrent, dHanded>>
    ELSE /\ dCurrent' = dCurrent
         /\ RunnerOn(dCurrent + 1)

\* runner(gen), with ArrayIterator.next
Runner ==
    IF dCurrent >= Len(dItems)
    THEN /\ dPc' = "exit"
         /\ UNCHANGED <<dCurrent, dHanded>>
    ELSE /\ dCurrent' = dCurrent + 1
         /\ RunnerOn(dCurrent + 1)

\* the callback of fs.readdir
ReaddirCallback ==
    /\ dPc = "readdir"
    /\ \E err \in BOOLEAN :
          IF err
          THEN /\ dPc' = "crashed"
               /\ UNCHANGED <<dCurrent, dHanded>>
          ELSE Runner
    /\ UNCHANGED <<optVars, dItems, dWritten, dFailed, parseVars, typeAlias,
                   textVars, attrVars, convVars, batchVars>>

\* the callback of fs.readFile in ItoMConverter.parse, up to the root loop
ReadFileCallback ==
    /\ dPc = "readFile"
    /\ IF dItems[dCurrent].readable
       THEN /\ dPc' = "converting"
            /\ ParseCalled(dItems[dCurrent].data)
       ELSE /\ dPc' = "crashed"
            /\ UNCHANGED <<parseVars, typeAlias>>
    /\ UNCHANGED <<optVars, dItems, dCurrent, dHanded, dWritten, dFailed,
                   textVars, attrVars, convVars, batchVars>>

\* a writeFile callback that calls runner after a successful write only
WriteFileCallbackStopsOnError ==
    /\ dPc = "converting"
    /\ pStatus = "done"
    /\ \E errrr \in BOOLEAN :
          IF errrr
          THEN /\ dFailed' = Append(dFailed, dCurrent)
               /\ dWritten' = dWritten
               /\ dPc' = "exit"
               /\ UNCHANGED <<dCurrent, dHanded>>
          ELSE /\ dFailed' = dFailed
               /\ dWritten' = Append(dWritten,
                                     [name |-> dItems[dCurrent].name,
                                      xml |-> pXml])
               /\ Runner
    /\ UNCHANGED <<optVars, dItems, parseVars, typeAlias,
                   textVars, attrVars, convVars, batchVars>>

\* the callback of fs.writeFile
WriteFileCallback ==
    /\ dPc = "converting"
    /\ pStatus = "done"
    /\ \E errrr \in BOOLEAN :
          IF errrr
          THEN /\ dFailed' = Append(dFailed, dCurrent)
               /\ dWritten' = dWritten
          ELSE /\ dFailed' = dFailed
               /\ dWritten' = Append(dWritten,
                                     [name |-> dItems[dCurrent].name,
                                      xml |-> pXml])
    /\ Runner
    /\ UNCHANGED <<optVars, dItems, parseVars, typeAlias,
                   textVars, attrVars, convVars, batchVars>>

NextDriver ==
    \/ ReaddirCallback
    \/ ReadFileCallback
    \/ RootTypeAlias
    \/ RootResultMap
    \/ RootStatement
    \/ RootParameterMap
    \/ RootProcedure
    \/ RootSkipped
    \/ BuildAndCallBack
    \/ WriteFileCallback

SpecDriver == InitDriver /\ [][NextDriver]_vars

----------------------------------------------------------------------------
(* Claims about the Placeholder Rewriter (under SpecText) *)

\* whether sub occurs in s
Contains(s, sub) == \E i \in 1..Len(s) : OccursAt(s, sub, i)

JdbcTypeEq == <<",","j","d","b","c","T","y","p","e","=">>

\* C1: for every name N and type T of letters, digits and underscore,
\* rewriting #N:T# yields #{N,jdbcType=T}, rewriting $N$ yields #{N}, and
\* rewriting #N.sub# yields #{N.sub}.
C1_BindTokenRewrite ==
    ftPc = "returned" =>
        \A N \in Names :
            /\ \A T \in Names :
                 ftIn = <<"#">> \o N \o <<":">> \o T \o <<"#">>
                   => /\ ftOk
                      /\ ftOut = <<"#", "{">> \o N \o JdbcTypeEq \o T \o <<"}">>
            /\ ftIn = <<"$">> \o N \o <<"$">>
                 => ftOk /\ ftOut = <<"#", "{">> \o N \o <<"}">>
            /\ \A sub \in Subs :
                 ftIn = <<"#">> \o N \o <<".">> \o sub \o <<"#">>
                   => /\ ftOk
                      /\ ftOut = <<"#", "{">> \o N \o <<".">> \o sub \o <<"}">>

\* a typed token with an underscore in its name has been rewritten
C1_Witness ==
    /\ ftPc = "returned"
    /\ ftIn = <<"#", "a", "_", ":", "1", "a", "#">>
    /\ ftOut = <<"#", "{", "a", "_">> \o JdbcTypeEq \o <<"1", "a", "}">>

\* the reference of C2: one pass from the left over the trimmed text, each
\* leftmost match replaced by its token, everything else copied
RECURSIVE SinglePass(_, _)
RECURSIVE SinglePassNext(_, _, _)
SinglePassNext(s, i, m) ==
    IF m.ok THEN MybatisToken(m) \o SinglePass(s, m.end + 1)
    ELSE <<s[i]>> \o SinglePass(s, i + 1)

SinglePass(s, i) ==
    IF i > Len(s) THEN <<>> ELSE SinglePassNext(s, i, MatchAt(s, i))

\* C2: for every text with several bind tokens, filterElementText returns
\* what a single left-to-right pass returns that replaces each leftmost
\* non-overlapping match exactly once, and the shared regex's lastIndex is 0
\* when the call returns.
C2_EqualsSinglePass ==
    ftPc = "returned" =>
        /\ ftOk
        /\ ftOut = SinglePass(NormalizeCrLf(Trim(ftIn)), 1)
        /\ regexLastIndex = 0

----------------------------------------------------------------------------
(* Claims about the Attribute Alias Filter (under SpecAttrs) *)

\* C3: filterAttrsAndTranslate is idempotent: for every attribute set and
\* every registry content, applying it twice (or more often) leaves the
\* attribute set that applying it once leaves.
C3_FilterIdempotent ==
    faApplied >= 2 => faObj = faOnce

\* the filter has been applied twice to an object whose padded class value
\* was an alias; the first call trimmed, resolved and renamed it
C3_Witness ==
    /\ faApplied = 2
    /\ Has(faOrig, "class") /\ faOrig["class"] = <<" ", "A", " ">>
    /\ Truthy(typeAlias, AliasA)
    /\ ~Has(faObj, "class")
    /\ faObj["type"] = typeAlias[AliasA]

----------------------------------------------------------------------------
(* Claims about the root loop, under SpecParse *)

\* whether a root child leaves an element in the elements list
Emits(child) == child.name \in StatementNames \cup {"resultMap", "procedure"}

\* where in the elements list the element of root child j stands
ElementOf(j) == elements[Cardinality({i \in 1..j : Emits(pDoc[i])})]

\* the declarations of the alias A before root child j
C4_Declared(j) == {i \in 1..(j - 1) : pDoc[i] \in {TA_FIRST, TA_AGAIN}}

\* what A stands for at root child j: the type of the last declaration
\* before it, A itself without one
C4_Resolved(j, declared) ==
    IF declared = {} THEN <<"A">>
    ELSE pDoc[CHOOSE i \in declared : \A h \in declared : h <= i].attr["type"]

\* C4: an element is emitted with the type the alias A has by the
\* declarations in front of it in the document: the type of the last such
\* declaration, and A itself when the alias is declared only after it
C4_DeclareBeforeUse ==
    \A j \in 1..(pIdx - 1) :
        /\ pDoc[j] = RM_A =>
              ElementOf(j).attr["type"] = C4_Resolved(j, C4_Declared(j))
        /\ pDoc[j] = SEL_A =>
              ElementOf(j).attr["parameterType"]
                  = C4_Resolved(j, C4_Declared(j))

C4_Witness ==
    /\ pStatus = "done"
    /\ pDoc = <<RM_A, TA_FIRST, RM_A>>
    /\ Len(elements) = 2
    /\ elements[1].attr["type"] = <<"A">>
    /\ elements[2].attr["type"] = <<"c", "o", "m", ".", "x", ".", "A">>
    /\ ~Has(elements[2].attr, "class")

----------------------------------------------------------------------------
(* Claims about procedures and the root dispatch, under SpecParse *)

\* the bind tokens of the two parameters that both parameter maps of the
\* model declare
C12_Tokens ==
    <<<<"\n", "#", "{", "p", ",", "m", "o", "d", "e", "=", "i", "n", ",",
        "j", "d", "b", "c", "T", "y", "p", "e", "=", "i", "n", "t", "}">>,
      <<"\n", "#", "{", "q", ",", "m", "o", "d", "e", "=", "O", "U", "T", ",",
        "j", "d", "b", "c", "T", "y", "p", "e", "=", "i", "n", "t", "}">>>>

\* body with its k-th marker from the left replaced by the k-th token
RECURSIVE C12_Filled(_, _)
C12_Filled(body, tokens) ==
    IF body = <<>> THEN <<>>
    ELSE IF Head(body) = "?" /\ tokens # <<>>
         THEN Head(tokens) \o C12_Filled(Tail(body), Tail(tokens))
         ELSE <<Head(body)>> \o C12_Filled(Tail(body), tokens)

\* C12: a procedure whose parameterMap resolves to p1..pn and whose body
\* holds m <= n markers is emitted with the text in which the k-th marker
\* from the left is the bind token of pk (property, mode, jdbcType), and
\* with no marker left
C12_MarkersFilled ==
    \A j \in 1..(pIdx - 1) :
        pDoc[j] \in {PROC_M, PROC_TWO} =>
            /\ ElementOf(j).name = "select"
            /\ ElementOf(j).text
                  = Trim(C12_Filled(pDoc[j].children[1].text, C12_Tokens))
            /\ ~Contains(ElementOf(j).text, <<"?">>)

C12_Witness ==
    /\ pStatus = "done"
    /\ pDoc = <<PM_MAP, PROC_TWO>>
    /\ elements[1].text =
          <<"f", "(", "\n", "#", "{", "p", ",", "m", "o", "d", "e", "=", "i",
            "n", ",", "j", "d", "b", "c", "T", "y", "p", "e", "=", "i", "n",
            "t", "}", ",", "\n", "#", "{", "q", ",", "m", "o", "d", "e", "=",
            "O", "U", "T", ",", "j", "d", "b", "c", "T", "y", "p", "e", "=",
            "i", "n", "t", "}", ")">>

\* root child j is a procedure whose reference cannot be resolved: its
\* parameterMap is declared nowhere in front of it, or it has markers and
\* no parameterMap attribute
C13_Unresolvable(j) ==
    \/ pDoc[j] = PROC_BARE
    \/ /\ pDoc[j] \in {PROC_M, PROC_TWO}
       /\ \A i \in 1..(j - 1) : pDoc[i] \notin {PM_MAP, PM_BARE}

\* C13: a procedure with an unresolvable reference is fatal: the root loop
\* never gets past it, the callback is never called and nothing is built
C13_UnresolvedIsFatal ==
    \A j \in 1..Len(pDoc) :
        C13_Unresolvable(j) =>
            /\ pIdx <= j
            /\ pStatus # "done"
            /\ pXml = <<>>

C13_Witness ==
    /\ pDoc = <<SEL_A, PROC_M, PM_MAP>>
    /\ pIdx = 2
    /\ pStatus = "thrown"
    /\ Len(elements) = 1
    /\ pXml = <<>>

\* the root children that leave an element, and the name it has
C15_Emitting ==
    {"resultMap", "sql", "select", "insert", "update", "delete", "procedure"}

C15_Name(child) == IF child.name = "procedure" THEN "select" ELSE child.name

\* C15: the elements list holds one element for each root child named
\* resultMap, sql, select, insert, update, delete or procedure that the
\* loop has passed, in document order, and none for any other child; a
\* child with any other name never makes the conversion throw
C15_RootDispatch ==
    /\ Len(elements)
          = Cardinality({i \in 1..(pIdx - 1) : pDoc[i].name \in C15_Emitting})
    /\ \A j \in 1..(pIdx - 1) :
          pDoc[j].name \in C15_Emitting =>
              elements[Cardinality({i \in 1..j : pDoc[i].name \in C15_Emitting})].name
                  = C15_Name(pDoc[j])
    /\ (pStatus = "thrown" /\ pIdx <= Len(pDoc)) =>
          pDoc[pIdx].name \in C15_Emitting \cup {"parameterMap"}

C15_Witness ==
    /\ pStatus = "done"
    /\ pDoc = <<RM_A, ROOT_OTHER, SEL_A>>
    /\ Len(elements) = 2
    /\ elements[1].name = "resultMap"
    /\ elements[2].name = "select"

----------------------------------------------------------------------------
(* Claims about the guards and the loop tag, under SpecConvert *)

\* the statement element the call returned
StmtOut == cvOut.out[1]

\* the name of the output element the rewritten tag is pushed onto
OutParentName == IF cvWrap = "none" THEN "select" ELSE cvWrap

\* what the tag looked at pushed onto its output parent
TagOut ==
    IF cvWrap = "none" THEN Tail(StmtOut.children)
    ELSE StmtOut.children[2].children

\* the guard's source children rewritten into an <if>
IfKids == ConvertEach("if", cvTag.children)

\* P != null and P != '', P != null, P == null or P == '', P == null
C5_Test(name, P) ==
    CASE name = "isNotEmpty" ->
            P \o <<" ", "!", "=", " ", "n", "u", "l", "l", " ", "a", "n", "d", " ">>
              \o P \o <<" ", "!", "=", " ", "'", "'">>
      [] name = "isNotNull" -> P \o <<" ", "!", "=", " ", "n", "u", "l", "l">>
      [] name = "isEmpty" ->
            P \o <<" ", "=", "=", " ", "n", "u", "l", "l", " ", "o", "r", " ">>
              \o P \o <<" ", "=", "=", " ", "'", "'">>
      [] name = "isNull" -> P \o <<" ", "=", "=", " ", "n", "u", "l", "l">>

\* C5: a guard isNotEmpty, isNotNull, isEmpty or isNull with a property P
\* and no prepend pushes exactly one <if> onto its parent; its only attribute
\* is test, built from the trimmed P by the guard's template, and its
\* children are the rewrite of the guard's children, in order and untouched
C5_GuardDesugared ==
    (/\ cvPc = "done"
     /\ cvTag.name \in GuardNames
     /\ Has(cvTag.attr, "property")
     /\ ~Has(cvTag.attr, "prepend")
     /\ IfKids.ok)
    => /\ cvOut.ok
       /\ TagOut = <<XmlElement("if",
                        [k \in {"test"} |->
                            C5_Test(cvTag.name, Trim(cvTag.attr["property"]))],
                        IfKids.out, <<>>)>>

C5_Witness ==
    /\ cvPc = "done"
    /\ cvOut.ok
    /\ cvWrap = "where"
    /\ cvTag.name = "isEmpty"
    /\ cvTag.attr = [k \in {"property"} |-> V_P_PADDED]
    /\ cvTag.children = <<T_A, G_TEST>>
    /\ Len(TagOut) = 1
    /\ TagOut[1].attr["test"] =
          <<"p", " ", "=", "=", " ", "n", "u", "l", "l", " ", "o", "r", " ",
            "p", " ", "=", "=", " ", "'", "'">>
    /\ Len(TagOut[1].children) = 2
    /\ TagOut[1].children[2].name = "if"

\* a guard with a property and a prepend whose first rewritten child is a
\* text run, converted
PrependCase ==
    /\ cvPc = "done"
    /\ cvOut.ok
    /\ cvTag.name \in GuardNames \cup {"isEqual"}
    /\ Has(cvTag.attr, "property")
    /\ Has(cvTag.attr, "prepend")
    /\ IfKids.out # <<>>
    /\ IfKids.out[1].name = TEXT_NODE_NAME

\* the text of the first child of the emitted <if>
FirstText == TagOut[1].children[1].text

\* C6 as stated: outside a <set>, the first child's text becomes a space,
\* X, a space, T
C6_SpaceOnBothSides ==
    (PrependCase /\ cvWrap # "set")
    => FirstText = <<" ">> \o Trim(cvTag.attr["prepend"]) \o <<" ">>
                       \o IfKids.out[1].text

\* C6 amended: outside a <set>, the first child's text becomes the trimmed
\* X, a space, T, a space; nothing stands in front of X
C6_PrefixAndTrailingSpace ==
    (PrependCase /\ cvWrap # "set")
    => FirstText = Trim(cvTag.attr["prepend"]) \o <<" ">>
                       \o IfKids.out[1].text \o <<" ">>

C6_Witness ==
    /\ PrependCase
    /\ cvWrap = "where"
    /\ cvTag.name = "isNotNull"
    /\ cvTag.attr["prepend"] = V_AND
    /\ cvTag.children = <<T_A>>
    /\ FirstText = <<"A", "N", "D", " ", "a", " ", "=", " ", "#", "{", "a",
                     "}", " ">>

\* C7: directly inside a <set>, the first child's text becomes T, a space,
\* the trimmed X; X does not go in front of T
C7_SuffixInSet ==
    (PrependCase /\ cvWrap = "set")
    => /\ FirstText = IfKids.out[1].text \o <<" ">>
                          \o Trim(cvTag.attr["prepend"])
       /\ SubSeq(FirstText, 1, Len(IfKids.out[1].text)) = IfKids.out[1].text

C7_Witness ==
    /\ PrependCase
    /\ cvWrap = "set"
    /\ cvTag.name = "isNotEmpty"
    /\ cvTag.attr["prepend"] = V_COMMA_PADDED
    /\ cvTag.children = <<T_A, T_A>>
    /\ FirstText = <<"a", " ", "=", " ", "#", "{", "a", "}", " ", ",">>

\* P == C for the literals, P == 'C' for every other C
C8_Test(P, C) ==
    IF C = <<"t", "r", "u", "e">> \/ C = <<"f", "a", "l", "s", "e">>
          \/ \A k \in 1..Len(C) : C[k] \in Digit
    THEN P \o <<" ", "=", "=", " ">> \o C
    ELSE P \o <<" ", "=", "=", " ", "'">> \o C \o <<"'">>

\* C8: an isEqual with property P and compareValue C is emitted as an <if>
\* whose test is P == C when C is true, false or all digits, and P == 'C'
\* for every other C
C8_EqualTest ==
    (/\ cvPc = "done"
     /\ cvOut.ok
     /\ cvTag.name = "isEqual"
     /\ Has(cvTag.attr, "property")
     /\ Has(cvTag.attr, "compareValue"))
    => /\ Len(TagOut) = 1
       /\ TagOut[1].name = "if"
       /\ TagOut[1].attr["test"] =
             C8_Test(Trim(cvTag.attr["property"]), cvTag.attr["compareValue"])

\* the guard's source children rewritten into the guard's own parent
SplicedKids == ConvertEach(OutParentName, cvTag.children)

\* the bare text run a guard without property leaves for its prepend
C9_PrependRun ==
    IF Has(cvTag.attr, "prepend")
    THEN <<XmlElement(TEXT_NODE_NAME, NoAttrs, <<>>,
                      Trim(cvTag.attr["prepend"]))>>
    ELSE <<>>

\* C9: a guard without property never aborts the conversion, with or
\* without a prepend: the parent gets a text run with the prepend if one
\* was given, then the guard's rewritten children, and no <if>
C9_NoPropertyNeverAborts ==
    (/\ cvPc = "done"
     /\ cvTag.name \in GuardNames \cup {"isEqual"}
     /\ ~Has(cvTag.attr, "property")
     /\ SplicedKids.ok)
    => /\ cvOut.ok
       /\ TagOut = C9_PrependRun \o SplicedKids.out

\* the children of the model whose text holds a #name[] pattern: text
\* runs, and an element whose own character data holds one
C10_Patterns == {T_LIST, T_IDS, T_TWICE, G_LIST}

\* the name the first pattern among the children gives, <<>> without one
C10_Recovered(children, hits) ==
    IF hits = {} THEN <<>>
    ELSE IF children[Least(hits)] = T_IDS THEN <<"i", "d", "s">>
    ELSE <<"l", "i", "s", "t">>

\* the attributes expected of the <foreach>
C10_Attr(found, sep) ==
    [k \in {"item"} \cup (IF found # <<>> THEN {"collection"} ELSE {})
                    \cup (IF sep # <<>> THEN {"separator"} ELSE {}) |->
        CASE k = "item" -> <<"l", "i", "s", "t", "I", "t", "e", "m">>
          [] k = "collection" -> found
          [] k = "separator" -> sep]

\* C10: an iterate without property whose children rewrite without error
\* is emitted as one <foreach> with item = listItem; its collection is the
\* name of the first #name[] pattern in the children's text (list for
\* #list[]), and without such a pattern it has no collection attribute and
\* the conversion still goes through
C10_CollectionRecovered ==
    (/\ cvPc = "done"
     /\ cvTag.name = "iterate"
     /\ ~Has(cvTag.attr, "property")
     /\ ConvertEach("foreach", cvTag.children).ok)
    => /\ cvOut.ok
       /\ Len(TagOut) = 1
       /\ TagOut[1].name = "foreach"
       /\ TagOut[1].attr =
             C10_Attr(C10_Recovered(cvTag.children,
                                    {k \in 1..Len(cvTag.children) :
                                        cvTag.children[k] \in C10_Patterns}),
                      IF Has(cvTag.attr, "conjunction")
                      THEN Trim(cvTag.attr["conjunction"]) ELSE <<>>)

C10_Witness ==
    /\ cvPc = "done"
    /\ cvOut.ok
    /\ cvTag.name = "iterate"
    /\ ~Has(cvTag.attr, "property")
    /\ cvTag.children = <<T_A, T_LIST>>
    /\ TagOut[1].name = "foreach"
    /\ TagOut[1].attr["collection"] = <<"l", "i", "s", "t">>
    /\ TagOut[1].attr["item"] = <<"l", "i", "s", "t", "I", "t", "e", "m">>

\* whether a text run among els or anywhere below them contains sub
RECURSIVE TextBelowContains(_, _)
TextBelowContains(els, sub) ==
    \E k \in 1..Len(els) :
        \/ els[k].name = TEXT_NODE_NAME /\ Contains(els[k].text, sub)
        \/ TextBelowContains(els[k].children, sub)

\* C11: after a loop tag with collection L is converted, no text run below
\* the emitted <foreach>, at any depth, contains L[]
C11_NoCollectionLeft ==
    (/\ cvPc = "done"
     /\ cvOut.ok
     /\ cvTag.name = "iterate"
     /\ Has(TagOut[1].attr, "collection"))
    => ~TextBelowContains(TagOut[1].children,
                          TagOut[1].attr["collection"] \o <<"[", "]">>)

\* the children of the element looked at, rewritten into an element of
\* the same name
SameNameKids == ConvertEach(cvTag.name, cvTag.children)

\* C14 as stated: an element with an unknown tag name is emitted without
\* aborting, with its name, its filtered attributes and its children as
\* they are in the source
C14_ChildrenVerbatim ==
    (cvPc = "done" /\ cvTag.name = "foo")
    => /\ cvOut.ok
       /\ Len(TagOut) = 1
       /\ TagOut[1].name = "foo"
       /\ TagOut[1].attr = [k \in {"type"} |-> TypeA]
       /\ TagOut[1].children = cvTag.children

\* C14 amended: an element with an unknown tag name is emitted with its
\* name and its filtered attributes (alias resolved, class renamed to
\* type); its children are rewritten like any other children, in order,
\* and the conversion aborts only when the rewrite of a child aborts
C14_ChildrenRewritten ==
    (cvPc = "done" /\ cvTag.name = "foo")
    => /\ cvOut.ok = SameNameKids.ok
       /\ cvOut.ok =>
             TagOut = <<XmlElement("foo", [k \in {"type"} |-> TypeA],
                                   SameNameKids.out, <<>>)>>

C14_Witness ==
    /\ cvPc = "done"
    /\ cvOut.ok
    /\ cvWrap = "none"
    /\ cvTag.name = "foo"
    /\ cvTag.children = <<T_A, G_TEST>>
    /\ TagOut[1].name = "foo"
    /\ TagOut[1].attr["type"] = <<"c", "o", "m", ".", "x", ".", "A">>
    /\ TagOut[1].children[1].text = <<"a", " ", "=", " ", "#", "{", "a", "}">>
    /\ TagOut[1].children[2].name = "if"

\* V without java.lang. in front, in lower case
C19_Expected(V) ==
    IF V = V_JAVA_LANG_INTEGER THEN <<"i", "n", "t", "e", "g", "e", "r">>
    ELSE <<"l", "o", "n", "g">>

\* C19: a selectKey with resultClass = V is emitted with resultType = V
\* without the java.lang. prefix and in lower case, and without resultClass
C19_SelectKeyResultType ==
    (/\ cvPc = "done"
     /\ cvOut.ok
     /\ cvTag.name = "selectKey"
     /\ Has(cvTag.attr, "resultClass")
     /\ cvTag.attr["resultClass"] \in {V_JAVA_LANG_INTEGER, V_LONG_PADDED})
    => /\ TagOut[1].name = "selectKey"
       /\ ~Has(TagOut[1].attr, "resultClass")
       /\ Has(TagOut[1].attr, "resultType")
       /\ TagOut[1].attr["resultType"] = C19_Expected(cvTag.attr["resultClass"])

\* the prepend of the <dynamic> looked at, trimmed; <<>> without one
C20_Prepend ==
    IF Has(cvTag.attr, "prepend") THEN Trim(cvTag.attr["prepend"]) ELSE <<>>

\* C20: a dynamic tag is emitted as where or set without attributes when
\* its prepend is that word, and as trim with prefix = prepend in every
\* other case, the case of no prepend included; its children are rewritten
\* into the emitted element
C20_DynamicRenamed ==
    (/\ cvPc = "done"
     /\ cvOut.ok
     /\ cvTag.name = "dynamic")
    => /\ Len(TagOut) = 1
       /\ TagOut[1].name \in {"where", "set", "trim"}
       /\ C20_Prepend = <<"w", "h", "e", "r", "e">> =>
             TagOut[1].name = "where" /\ TagOut[1].attr = NoAttrs
       /\ C20_Prepend = <<"s", "e", "t">> =>
             TagOut[1].name = "set" /\ TagOut[1].attr = NoAttrs
       /\ C20_Prepend \notin {<<"w", "h", "e", "r", "e">>, <<"s", "e", "t">>} =>
             /\ TagOut[1].name = "trim"
             /\ Has(TagOut[1].attr, "prefix")
             /\ TagOut[1].attr["prefix"] = C20_Prepend
       /\ TagOut[1].children = ConvertEach(TagOut[1].name, cvTag.children).out

----------------------------------------------------------------------------
(* Claims about the command line program, under SpecDriver *)

InSeq(x, seq) == \E i \in 1..Len(seq) : seq[i] = x

\* no callback is pending and nothing was thrown: the program has ended
Exited == dPc = "exit"

\* an uncaught throw of a conversion ended the program
ConversionThrew == dPc = "converting" /\ pStatus = "thrown"

C16_XmlEntry(k) == k <= Len(dItems) /\ EndsWithXml(dItems[k].name)
C16_IsWritten(k) == \E i \in 1..Len(dWritten) : dWritten[i].name = dItems[k].name

\* C16: whatever the directory lists, every entry whose name ends in .xml
\* is handed to the converter and, its conversion having succeeded, written
\* under its own name (or its failed write is logged), however many other
\* entries the listing holds and wherever they stand. The program ends
\* once no callback is pending, so the claim is stated of the state it ends
\* in without a throw: nothing can be handed over after it.
C16_EveryXmlHandedAndWritten ==
    Exited
    => \A k \in 1..Len(dItems) :
           C16_XmlEntry(k)
           => /\ InSeq(k, dHanded)
              /\ C16_IsWritten(k) \/ InSeq(k, dFailed)

C17_AllMappers ==
    \A i \in 1..Len(dItems) :
        EndsWithXml(dItems[i].name) /\ dItems[i].readable

\* C17: in a directory of readable .xml files only, a conversion that
\* throws is confined to its file: when the program has come to rest,
\* every file of the listing has been handed to the converter, the ones
\* after a failed file included.
C17_LaterFilesConverted ==
    (C17_AllMappers /\ (Exited \/ ConversionThrew))
    => \A k \in 1..Len(dItems) : InSeq(k, dHanded)

\* the files whose write callback has run
C26_Settled == Len(dWritten) + Len(dFailed)

\* C26: files are handed to the converter one at a time and in the order
\* of the listing: the entries handed over are strictly increasing indices
\* of the listing, so none is handed over twice; all but the last have had
\* their write callback run, and the last one is the one in flight while
\* a read, a conversion or a write is pending; no name is written twice or
\* without having been handed over.
C26_OneAtATime ==
    /\ \A i \in 1..Len(dHanded) :
          /\ dHanded[i] \in 1..Len(dItems)
          /\ i > 1 => dHanded[i - 1] < dHanded[i]
    /\ dPc \in {"readFile", "converting"}
       => /\ dHanded # <<>>
          /\ dHanded[Len(dHanded)] = dCurrent
          /\ C26_Settled = Len(dHanded) - 1
    /\ dPc \in {"readdir", "exit"} => C26_Settled = Len(dHanded)
    /\ \A i, j \in 1..Len(dWritten) :
          dWritten[i].name = dWritten[j].name => i = j
    /\ \A i \in 1..Len(dWritten) :
          \E j \in 1..Len(dHanded) : dItems[dHanded[j]].name = dWritten[i].name
    /\ \A i \in 1..Len(dFailed) :
          /\ InSeq(dFailed[i], dHanded)
          /\ ~C16_IsWritten(dFailed[i])

\* the third file is being converted after the first two were settled
C26_Witness ==
    /\ Len(dItems) = 3
    /\ dHanded = <<1, 2, 3>>
    /\ dPc = "converting"
    /\ pStatus = "parsing"
    /\ Len(dWritten) = 1
    /\ dFailed = <<1>>

\* the step of the writeFile callback after a failed write, after a
\* successful one
C27_FailedWrite == dFailed' # dFailed
C27_GoodWrite == dWritten' # dWritten

\* the driver goes on to the next entry of the listing, or ends after the
\* last one
C27_Advanced ==
    IF dCurrent >= Len(dItems)
    THEN /\ dPc' = "exit"
         /\ dCurrent' = dCurrent
         /\ dHanded' = dHanded
    ELSE /\ dCurrent' = dCurrent + 1
         /\ IF EndsWithXml(dItems[dCurrent + 1].name)
            THEN dPc' = "readFile" /\ dHanded' = Append(dHanded, dCurrent + 1)
            ELSE dHanded' = dHanded

\* C27: a write that failed is logged for its file and nothing is recorded
\* as written, and the driver then goes on to the next entry of the
\* listing exactly as it does after a write that succeeded.
C27_FailedWriteGoesOn ==
    [][/\ C27_FailedWrite
          => /\ dFailed' = Append(dFailed, dCurrent)
             /\ dWritten' = dWritten
             /\ C27_Advanced
       /\ C27_GoodWrite => C27_Advanced]_vars

\* the file after a failed write has been handed to the converter
C27_Witness ==
    /\ dFailed = <<1>>
    /\ dWritten = <<>>
    /\ dPc = "readFile"
    /\ dCurrent = 2
    /\ dHanded = <<1, 2>>

----------------------------------------------------------------------------
(* Claims about documents converted one after the other, under SpecBatch *)

\* Under SpecText: a call of filterElementText that finds the static regex
\* with lastIndex 0, as a new regex has it, returns and leaves it with
\* lastIndex 0, so a call made for one document hands nothing to the calls
\* made for the next.
RegexAtRest == ftPc = "returned" => (ftOk /\ regexLastIndex = 0)

\* the second document of the batch is the one being converted
C18_AtSecond == pRun = "batch" /\ pQueue = <<>>

\* the aliases and the parameter map ids the root children before the loop's
\* position declare
C18_DeclaredAliases ==
    {pDoc[j].attr["alias"] :
        j \in {i \in 1..Len(pDoc) : i < pIdx /\ pDoc[i].name = "typeAlias"}}
C18_DeclaredMaps ==
    {pDoc[j].attr["id"] :
        j \in {i \in 1..Len(pDoc) : i < pIdx /\ pDoc[i].name = "parameterMap"}}

\* C18: when two documents are converted one after the other in one
\* process, the conversion of the second one ends as its conversion by
\* itself ended, with the same output; and while the second one is being
\* converted both registries hold nothing but what the second document
\* itself has declared so far.
C18_NoStateSurvives ==
    C18_AtSecond
    => /\ pStatus \in {"done", "thrown"} => Outcome = pSolo
       /\ DOMAIN typeAlias \subseteq C18_DeclaredAliases
       /\ DOMAIN parameterMap \subseteq C18_DeclaredMaps

\* the first document declared the alias and the parameter map the second
\* one uses without declaring them
C18_Witness ==
    /\ C18_AtSecond
    /\ pStatus = "done"
    /\ pDoc = <<RM_A>>
    /\ pSolo = Outcome
    /\ pXml # <<>>
    /\ typeAlias = NoAttrs

----------------------------------------------------------------------------
(* Claims about parameter maps, under SpecParameterMap *)

RECURSIVE OnlyNamed(_, _)
\* the children with one of the names, in order
OnlyNamed(children, names) ==
    IF children = <<>> THEN <<>>
    ELSE (IF Head(children).name \in names THEN <<Head(children)>> ELSE <<>>)
         \o OnlyNamed(Tail(children), names)

\* the mode the descriptor of a declaration is to have
C21_Mode(attr) ==
    IF Has(attr, "mode") /\ ToUpperCase(attr["mode"]) \in {S_IN, S_OUT}
    THEN attr["mode"] ELSE S_IN

C21_Declared == OnlyNamed(pDoc[1].children, {"parameter"})

\* C21: registering a parameter map never aborts the conversion, and once
\* it is registered the map stored under its id holds one descriptor per
\* parameter declaration, in declaration order, whose mode is the declared
\* one when that is IN or OUT in any letter case and IN otherwise, a
\* declaration without mode included.
C21_ModeDefaultsToIn ==
    /\ pStatus # "thrown"
    /\ pIdx > 1
       => /\ Has(parameterMap, V_M)
          /\ Len(parameterMap[V_M].parameters) = Len(C21_Declared)
          /\ \A i \in 1..Len(C21_Declared) :
                /\ parameterMap[V_M].parameters[i].mode
                       = C21_Mode(C21_Declared[i].attr)
                /\ parameterMap[V_M].parameters[i].property
                       = C21_Declared[i].attr["property"]

----------------------------------------------------------------------------
(* Claims about the emission of the tree, under SpecParse *)

RECURSIVE C22_AnyNull(_)
\* some element of the trees, at any depth, has an attribute without value
C22_AnyNull(els) ==
    \E i \in 1..Len(els) :
        \/ \E k \in DOMAIN els[i].attr : els[i].attr[k] = Undefined
        \/ C22_AnyNull(els[i].children)

RECURSIVE C22_Texts(_)
\* the texts of the trees in document order, an element's own text first
C22_Texts(els) ==
    IF els = <<>> THEN <<>>
    ELSE (IF Head(els).text # <<>> THEN <<Head(els).text>> ELSE <<>>)
         \o C22_Texts(Head(els).children) \o C22_Texts(Tail(els))

RECURSIVE C22_NodeTexts(_)
\* the texts of the emitted nodes in document order
C22_NodeTexts(nodes) ==
    IF nodes = <<>> THEN <<>>
    ELSE (IF Head(nodes).kind # "ele" THEN <<Head(nodes).text>> ELSE <<>>)
         \o C22_NodeTexts(Head(nodes).children) \o C22_NodeTexts(Tail(nodes))

RECURSIVE C22_Mirrors(_, _)
\* the emitted element nodes are the elements, one for one and in order,
\* each with all the attributes of its element, and so below them
C22_Mirrors(els, nodes) ==
    LET es == SelectSeq(els, LAMBDA e : e.name # TEXT_NODE_NAME)
        ns == SelectSeq(nodes, LAMBDA n : n.kind = "ele")
    IN  /\ Len(es) = Len(ns)
        /\ \A i \in 1..Len(es) :
              /\ ns[i].name = es[i].name
              /\ ns[i].attr = es[i].attr
              /\ C22_Mirrors(es[i].children, ns[i].children)

\* C22: the callback is called only for a tree in which every attribute
\* of every element has a value, and then every element is emitted with
\* all its attributes, elements and texts in their order; a tree with an
\* attribute without value makes the emission throw, so that the callback
\* is never called; and the emission throws for no other reason.
C22_NullAttrIsFatal ==
    /\ pStatus = "done"
       => /\ ~C22_AnyNull(elements)
          /\ C22_Mirrors(elements, pXml)
          /\ C22_NodeTexts(pXml) = C22_Texts(elements)
    /\ (pStatus = "thrown" /\ pIdx > Len(pDoc))
       => C22_AnyNull(elements)

\* a procedure whose parameter map declares no class
C22_Witness ==
    /\ pDoc = <<SEL_A, PM_BARE, PROC_TWO>>
    /\ pIdx = 4
    /\ pStatus = "thrown"
    /\ Len(elements) = 2
    /\ elements[2].attr["parameterType"] = Undefined

\* a document emitted in full
C22_Emitted ==
    /\ pDoc = <<RM_A, PM_MAP, PROC_TWO>>
    /\ pStatus = "done"
    /\ Len(pXml) = 2

----------------------------------------------------------------------------
(* Claims about text runs, under SpecConvert *)

RECURSIVE C23_TextsNonEmpty(_)
\* every text run of the trees, at any depth, has a text
C23_TextsNonEmpty(els) ==
    \A i \in 1..Len(els) :
        /\ els[i].name = TEXT_NODE_NAME
           => els[i].text # <<>> /\ els[i].text # Undefined
        /\ C23_TextsNonEmpty(els[i].children)

\* the tag looked at is a guard that leaves a text run for its prepend and
\* has no prepend to put into it
C23_NoTextForRun ==
    /\ cvTag.name \in GuardNames \cup {"isEqual"}
    /\ ~Truthy(cvTag.attr, "property")
    /\ ~Truthy(cvTag.attr, "prepend") \/ Trim(cvTag.attr["prepend"]) = <<>>

\* C23: every text run of the tree a conversion gives has a non-empty text,
\* also where the prepend of a guard was put into the first text and where
\* the loop variable was replaced in a text; and where a text run without
\* text would have to be made, createXmlElement throws instead.
C23_TextRunsNonEmpty ==
    cvPc = "done"
    => /\ cvOut.ok => C23_TextsNonEmpty(cvOut.out)
       /\ C23_NoTextForRun => ~cvOut.ok

\* a loop whose first text had the loop variable put in
C23_Witness ==
    /\ cvPc = "done"
    /\ cvOut.ok
    /\ cvTag.name = "iterate"
    /\ cvTag.children # <<>>
    /\ cvTag.children[1] = T_LIST
    /\ TagOut[1].children[1].text = <<"#", "{">> \o S_LIST_ITEM \o <<"}">>

----------------------------------------------------------------------------
(* Claims about result maps, under SpecResultMap *)

C24_Kept == OnlyNamed(pDoc[1].children, {"result", "id"})

\* what the claim says of the element emitted for one kept child
C24_ChildAsClaimed(src, out) ==
    /\ IF Has(src.attr, "select") /\ Has(src.attr, "column")
       THEN out.name = "association"
       ELSE out.name = src.name /\ ~Has(out.attr, "nullValue")
    /\ Has(src.attr, "jdbcType")
       => /\ Has(out.attr, "jdbcType")
          /\ out.attr["jdbcType"] = ToUpperCase(src.attr["jdbcType"])
    /\ \A k \in DOMAIN src.attr \ {"jdbcType", "nullValue"} :
          Has(out.attr, k) /\ out.attr[k] = src.attr[k]
    /\ DOMAIN out.attr \subseteq DOMAIN src.attr

\* C24: the children of the emitted resultMap are the source children
\* named result or id, one for one and in source order, texts and other
\* tags being dropped; a child with a select and a column is emitted as
\* association, every other one under its own name and without nullValue;
\* a jdbcType is upper-cased and every other attribute kept.
C24_ResultChildren ==
    pIdx > 1
    => /\ pStatus # "thrown"
       /\ Len(elements) = 1
       /\ elements[1].name = "resultMap"
       /\ Len(elements[1].children) = Len(C24_Kept)
       /\ \A i \in 1..Len(C24_Kept) :
             C24_ChildAsClaimed(C24_Kept[i], elements[1].children[i])

\* a plain result with nullValue after an other tag, then a nested select
C24_Witness ==
    /\ pIdx > 1
    /\ Len(pDoc[1].children) = 2
    /\ pDoc[1].children[1] = U_FOO
    /\ pDoc[1].children[2].name = "result"
    /\ DOMAIN pDoc[1].children[2].attr = {"property", "jdbcType", "nullValue"}
    /\ Len(elements[1].children) = 1
    /\ elements[1].children[1].attr =
           [k \in {"property", "jdbcType"} |->
               IF k = "property" THEN V_P ELSE <<"I", "N", "T">>]

----------------------------------------------------------------------------
(* Claims about elements already pushed, under SpecConvert *)

\* the children of the emitted <if> or <foreach> as they were when the
\* rewrite of the source children pushed them
C25_AsPushed == ConvertEach(TagOut[1].name, cvTag.children).out

\* C25: an element that has been pushed onto the children of its parent is
\* not changed afterwards: the children of the <if> a guard gives and of
\* the <foreach> a loop gives are, when the conversion is over, as they
\* were pushed, name, attributes and text.
C25_PushedNeverChanged ==
    (/\ cvPc = "done"
     /\ cvOut.ok
     /\ cvTag.name \in GuardNames \cup {"isEqual", "iterate"}
     /\ Len(TagOut) = 1
     /\ TagOut[1].name \in {"if", "foreach"})
    => TagOut[1].children = C25_AsPushed

----------------------------------------------------------------------------
(* Claims about the prepend of a guard, under SpecConvert *)

RECURSIVE C28_Mentions(_, _)
\* a text or an attribute value of the trees, at any depth, contains sub
C28_Mentions(els, sub) ==
    \E k \in 1..Len(els) :
        \/ Contains(els[k].text, sub)
        \/ \E a \in DOMAIN els[k].attr : Contains(els[k].attr[a], sub)
        \/ C28_Mentions(els[k].children, sub)

\* a guard with property and prepend whose <if> has no children or an
\* element as its first rewritten child
C28_NoFirstText ==
    /\ cvPc = "done"
    /\ cvTag.name \in GuardNames \cup {"isEqual"}
    /\ Has(cvTag.attr, "property")
    /\ Has(cvTag.attr, "prepend")
    /\ IfKids.ok
    /\ IfKids.out = <<>> \/ IfKids.out[1].name # TEXT_NODE_NAME

\* the <if> is emitted with test alone and with its children as rewritten
C28_IfUntouched ==
    /\ cvOut.ok
    /\ Len(TagOut) = 1
    /\ TagOut[1].name = "if"
    /\ DOMAIN TagOut[1].attr = {"test"}
    /\ TagOut[1].children = IfKids.out

\* C28 as stated: for such a guard no text is changed, test is the only
\* attribute of the <if>, and the prepend value appears nowhere in the
\* output of the statement.
C28_PrependNowhere ==
    C28_NoFirstText
    => /\ C28_IfUntouched
       /\ ~C28_Mentions(cvOut.out, Trim(cvTag.attr["prepend"]))

\* C28: for such a guard no text is changed, test is the only attribute of
\* the <if>, and the prepend value appears nowhere in the <if> and below
\* it; an enclosing <dynamic> that becomes <trim> still copies the prepend
\* of its first child into prefixOverrides.
C28_PrependNowhereInIf ==
    C28_NoFirstText
    => /\ C28_IfUntouched
       /\ ~C28_Mentions(TagOut, Trim(cvTag.attr["prepend"]))
       /\ C28_Mentions(cvOut.out, Trim(cvTag.attr["prepend"]))
          => /\ cvWrap = "trim"
             /\ StmtOut.children[2].attr["prefixOverrides"]
                    = cvTag.attr["prepend"]

\* a guard whose first child is an unknown tag, inside a <trim>
C28_Witness ==
    /\ C28_NoFirstText
    /\ cvOut.ok
    /\ cvWrap = "trim"
    /\ cvTag.children # <<>>
    /\ cvTag.children[1] = U_FOO
    /\ StmtOut.children[2].attr["prefixOverrides"] = cvTag.attr["prepend"]
    /\ TagOut[1].children[1].text = <<>>

----------------------------------------------------------------------------
(* Claims about Optional, under SpecOptional *)

\* the Optional holds a value
C29_HoldsValue(o) == o.kind = "Some"

\* C29: of(v) holds a value exactly when v is neither null nor undefined,
\* empty() holds none, and isPresent() returns true exactly when the
\* Optional it is called on holds a value.
C29_IsPresentIffValue ==
    /\ oCalls = 0
       => (C29_HoldsValue(oThis) <=> oSrc \in OptValues)
    /\ oRet.op = "isPresent"
       => (oRet.present <=> C29_HoldsValue(oRet.on))

\* C30: filter(predicate) returns the Optional it is called on when that
\* holds a value for which the predicate returns true, and None when it
\* holds no value or the predicate returns false.
C30_FilterKeepsMatching ==
    oRet.op = "filter"
    => oRet.ret = IF C29_HoldsValue(oRet.on) /\ oRet.pred[oRet.on.obj]
                  THEN oRet.on ELSE None

============================================================================
